---- MODULE Spec2Model ----
(***************************************************************************)
(* A model of the ephemeral-be gateway (FastAPI + PostgreSQL + Kafka).     *)
(*                                                                         *)
(* The specifications of this module share its variables:                  *)
(*   Spec          the quota engine and the publish path                   *)
(*                 (app/quota_service.py, app/routers/topics.py publish)   *)
(*   RegistrySpec  the connection registry and the stream endpoint         *)
(*                 (app/connection_tracker.py, topics.py stream)           *)
(*   AuthSpec      tenants, credentials and soft delete                    *)
(*                 (app/routers/auth.py, app/dependencies.py)              *)
(*   TenantSpec    the api-keys, projects, topics and usage routers with   *)
(*                 two tenants (app/routers/*.py)                          *)
(*   ResolverSpec  get_current_user called on the results of its two       *)
(*                 strategies (app/dependencies.py, as its unit test does) *)
(*   PublishSpec   publish from the size validation to the response, with  *)
(*                 the producer and the broker (topics.py publish,         *)
(*                 app/kafka_service.py publish_messages)                  *)
(*   RetrySpec     check_and_increment_usage called by concurrent workers  *)
(*                 (app/quota_service.py)                                  *)
(*   LedgerSpec    the quota engine of Spec with two tenants whose         *)
(*                 projects are deleted meanwhile (routers/projects.py)    *)
(*                                                                         *)
(* The relational store is PostgreSQL at READ COMMITTED: a row written by  *)
(* an open transaction is invisible to the others, SELECT ... FOR UPDATE   *)
(* NOWAIT raises LockNotAvailable on a row another transaction has locked, *)
(* an INSERT of a key another open transaction has inserted waits for that *)
(* transaction, and an INSERT of a committed key raises IntegrityError.    *)
(***************************************************************************)
EXTENDS Integers, FiniteSets, Sequences, TLC

(***************************************************************************)
(* Program constants.                                                      *)
(***************************************************************************)
FREE_TIER_MESSAGES_LIMIT == 10000
FREE_TIER_BYTES_LIMIT == 104857600
MAX_TOTAL_MESSAGES_IN == 200000
MAX_TOTAL_BYTES_IN == 2000000000
MAX_CONNECTIONS_PER_USER == 3
MAX_PAYLOAD_SIZE == 64 * 1024

(***************************************************************************)
(* Bounds of the model.                                                    *)
(***************************************************************************)
NumWorkers == 2
NumProjects == 2
MaxDay == 2
MaxRequests == 3
NumTenants == 2
MaxCalls == 6
MaxUsers == 2
MaxKeys == 2
MaxAuthRequests == 4
MaxProjects == 3
MaxTenantRequests == 3
MaxMessages == 3
MaxPublishRequests == 2
MaxRetryCalls == 3
MaxLedgerRequests == 2

Workers == 1..NumWorkers
Projects == 1..NumProjects
Days == 1..MaxDay
Tenants == 1..NumTenants
TopicNames == {"events"}
UserIds == 1..MaxUsers
Secrets == 0..MaxKeys
RawEmails == {"a@x.io", " A@X.io ", "b@x.io"}
Passwords == {"pw1", "pw2"}
ProjectIds == 1..MaxProjects

(***************************************************************************)
(* Request batches (message_count, bytes_count) a publish may carry, as    *)
(* computed at topics.py:152-153.  Every message is at most 65536 bytes.   *)
(***************************************************************************)
Batches ==
    { [n |-> 4000, b |-> 44000000],
      [n |-> 6000, b |-> 60857600],
      [n |-> 1000, b |-> 65536000] }

\* One SSE record: message_count = 1 and the bytes of its JSON payload.
OutBatches == { [n |-> 1, b |-> 64] }

MaxBatchMessages == CHOOSE m \in {bt.n : bt \in Batches} : \A bt \in Batches : bt.n <= m
MaxBatchBytes == CHOOSE m \in {bt.b : bt \in Batches} : \A bt \in Batches : bt.b <= m

NoRow == [absent |-> TRUE]
Free == 0

ZeroGlobal == [messages_in |-> 0, bytes_in |-> 0]
ZeroUsage == [messages_in |-> 0, messages_out |-> 0, bytes_in |-> 0, bytes_out |-> 0]

\* Traffic of projects outside the model that day 1 already holds.
SeededGlobal == [messages_in |-> 195000, bytes_in |-> 1900000000]

VARIABLES
    today,        \* date.today()
    globalRows,   \* committed global_usage_counters rows, by date
    usageRows,    \* committed usage_counters rows, by (project, date)
    gLock,        \* transaction holding the row lock (or the uncommitted insert) of a global row
    uLock,        \* the same for a usage row
    pc,           \* where each worker's request stands
    req,          \* the request a worker serves: direction, project, message_count, bytes_count
    loc,          \* the handler's locals: the dates read and the counters read under lock
    resp,         \* the response: status code, error kind, messages acknowledged by the broker
    nreq,         \* requests started so far
    connections,  \* connection_tracker._connections: user_id -> set of ConnectionInfo
    rpc,          \* where each worker's register_connection call stands
    rcall,        \* that call's arguments and the connection_id it generated
    rret,         \* what the worker's last registry call returned
    streamResp,   \* the response to the worker's last stream request
    streamObs,    \* what that request left to observe: the SSE events written, the
                  \* log entries, the broker consumer, the channel, the debits
    ncalls,       \* registry calls and stream requests made so far
    users,        \* users rows by id: email, password_hash, is_active
    passwordSet,  \* history: per user id, the password of the last committed
                  \* signup or password update ("none" before any)
    apiKeys,      \* api_keys rows by the secret they were issued with
    minted,       \* the JWTs handed out so far
    apc,          \* where each worker's auth request stands
    areq,         \* that request: operation, Authorization header, body
    aauth,        \* what get_current_user resolved: (user, project_id), and the key row found
    aresp,        \* the response: operation and status code
    refusedKinds, \* history: kinds of valid credentials of a deactivated user refused so far
    nauth,        \* auth requests started so far
    projects,     \* projects rows by id: user_id, name, is_default
    topics,       \* topics rows, by the id of the project each was created with
    kafkaTopics,  \* the topics that exist on the broker, by name
    deleteLog,    \* what the last delete_user_topics call logged, topic by topic
    nkeys,        \* API key secrets issued so far by create_api_key
    nproj,        \* projects rows inserted so far
    abody,        \* the body the worker's handler read: email and password
    dargs,        \* get_current_user called directly: (jwt_result, api_key_result)
    dret,         \* what that call returned or raised
    ppc,          \* where each worker's publish request stands
    preq,         \* the publish request a worker serves: its number and project
    pmsgs,        \* request.messages of that request
    pidx,         \* the index of the message publish_messages is at
    presp,        \* the response: status, and the index a 413 names
    futures,      \* the futures producer.send returned, by (request, index)
    inflight,     \* messages handed to the producer and not yet on the broker
    brokerLog,    \* the topic's partition: the messages appended, in order
    npub,         \* publish requests started so far
    ptopic,       \* the project whose topic each request so far published to
    cpc,          \* where each worker's check_and_increment_usage call stands
    creq,         \* that call's arguments, and the date it read
    ctx,          \* its locals (retry_count, retry_delay) and the rows its open
                  \* transaction has written
    cresp,        \* what it returned or raised, with the attempts made, the errors
                  \* caught and the sleeps taken so far
    ncic          \* check_and_increment_usage calls made so far

quotaVars == <<today, globalRows, usageRows, gLock, uLock, pc, req, loc, resp, nreq>>
registryVars == <<connections, rpc, rcall, rret, streamResp, streamObs, ncalls>>
tenantVars == <<projects, topics, kafkaTopics, deleteLog, nkeys, nproj>>
authVars == <<users, passwordSet, apiKeys, minted, apc, areq, aauth, aresp, refusedKinds, nauth,
              tenantVars, abody>>

resolverVars == <<dargs, dret>>

publishVars == <<ppc, preq, pmsgs, pidx, presp, futures, inflight, brokerLog, npub, ptopic>>

retryVars == <<cpc, creq, ctx, cresp, ncic>>

vars == <<quotaVars, registryVars, authVars, resolverVars, publishVars, retryVars>>

\* What the actions of one group leave alone.
notQuota == <<registryVars, authVars, resolverVars, publishVars, retryVars>>
notRegistry == <<quotaVars, authVars, resolverVars, publishVars, retryVars>>
notAuth == <<quotaVars, registryVars, resolverVars, publishVars, retryVars>>
notResolver == <<quotaVars, registryVars, authVars, publishVars, retryVars>>
notPublish == <<registryVars, authVars, resolverVars, retryVars,
                today, gLock, uLock, pc, req, loc, resp, nreq>>

NoReq == [dir |-> "none", project |-> 0, n |-> 0, b |-> 0]
NoLoc == [qday |-> 0, iday |-> 0, seenG |-> NoRow, seenU |-> NoRow]
NoResp == [status |-> 0, error |-> "none", acked |-> 0, debited |-> FALSE]
NoCall == [user |-> 0, topic |-> "none", connection_id |-> 0]
NoReturn == [op |-> "none", success |-> FALSE, connection_id |-> 0]
NoStreamResp == [user |-> 0, topic |-> "none", status |-> 0, error |-> "none", connection_id |-> 0]

\* A request that wrote no event and no log entry, created no consumer
\* (topics.py:324), polled nothing, put nothing in message_queue (line 340)
\* and debited nothing (line 425).
NoStreamObs ==
    [events |-> <<>>, log |-> <<>>, opened |-> 0, closed |-> 0,
     polled |-> <<>>, queued |-> 0, debits |-> 0]

RegistryInit ==
    /\ connections = <<>>
    /\ rpc = [w \in Workers |-> "idle"]
    /\ rcall = [w \in Workers |-> NoCall]
    /\ rret = [w \in Workers |-> NoReturn]
    /\ streamResp = [w \in Workers |-> NoStreamResp]
    /\ streamObs = [w \in Workers |-> NoStreamObs]
    /\ ncalls = 0

(***************************************************************************)
(* auth.py: hashes and tokens, by what verification can tell of them.      *)
(***************************************************************************)
\* routers/auth.py:26, 128, 218: email.strip().lower()
Normalize(raw) == IF raw = " A@X.io " THEN "a@x.io" ELSE raw

\* auth.py:19-26.  The salt is left out: verification does not depend on it.
hash_password(plain) == [bcrypt |-> plain]

\* Variant: every password verifies.
verify_password_Any(plain, password_hash) == TRUE

\* auth.py:29-36
verify_password(plain, password_hash) == password_hash.bcrypt = plain

\* auth.py:57-59
generate_lookup_hash(secret) == [sha256 |-> secret]

\* models.py:58: lookup_hash is nullable; the rows older than the column hold NULL.
NoHash == [null |-> TRUE]

\* auth.py:39-44.  valid: signed with jwt_secret and not expired.
create_jwt(user_id) == [sub |-> user_id, valid |-> TRUE]

\* auth.py:47-54: the subject, or None (written 0).
decode_jwt(token) == IF token.valid THEN token.sub ELSE 0

\* What a client can put in the Authorization header.
Headers ==
    {[scheme |-> "Bearer", cred |-> t] :
        t \in minted \cup {[sub |-> 1, valid |-> FALSE]}}
    \cup {[scheme |-> "ApiKey", cred |-> k] : k \in Secrets}

NoAuthReq == [op |-> "none", header |-> [scheme |-> "none", cred |-> 0]]
NoAuth == [user |-> 0, project |-> 0, key |-> 0]
NoTarget == [kind |-> "none", id |-> 0]
NoAuthResp == [op |-> "none", status |-> 0, user |-> 0, rows |-> {}, target |-> NoTarget]
NoBody == [email |-> "none", password |-> "none"]

\* kafka_service.py:62 and 89: f"user_{user_id}_events", f"project_{project_id}_events"
user_events(user_id) == [kind |-> "user", id |-> user_id]
project_events(project_id) == [kind |-> "project", id |-> project_id]

\* The 10 random characters that name the topic created with project p
\* (routers/auth.py:83, routers/projects.py:91).
LogicalName(p) == [logical |-> p]

\* The rows signup commits with a user (routers/auth.py:55-59 and 86-90).
DefaultProject(user_id) ==
    [user_id |-> user_id, name |-> "Default Project", is_default |-> TRUE]

\* Variant: the default topic named as create_project names its topics.
DefaultTopic_ProjectNamed(user_id, p) ==
    [project_id |-> p, name |-> LogicalName(p), kafka_topic_name |-> project_events(p)]

DefaultTopic(user_id, p) ==
    [project_id |-> p, name |-> LogicalName(p), kafka_topic_name |-> user_events(user_id)]

\* No delete_user_topics call was made yet.
NoDeleteLog == [user |-> 0, deleted |-> {}, failed |-> {}]

\* One account exists, with its default project and topic, a token in a
\* client's hands and an API key issued before api_keys.lookup_hash existed.
AuthInit ==
    /\ users = [u \in UserIds |->
                  IF u = 1
                  THEN [email |-> "a@x.io", password_hash |-> hash_password("pw1"),
                        is_active |-> TRUE]
                  ELSE NoRow]
    /\ passwordSet = [u \in UserIds |-> IF u = 1 THEN "pw1" ELSE "none"]
    /\ apiKeys = [k \in Secrets |->
                    IF k = 0
                    THEN [user_id |-> 1, project_id |-> 1, secret_hash |-> hash_password(0),
                          lookup_hash |-> NoHash]
                    ELSE NoRow]
    /\ minted = {create_jwt(1)}
    /\ apc = [w \in Workers |-> "idle"]
    /\ areq = [w \in Workers |-> NoAuthReq]
    /\ aauth = [w \in Workers |-> NoAuth]
    /\ aresp = [w \in Workers |-> NoAuthResp]
    /\ refusedKinds = {}
    /\ nauth = 0
    /\ projects = [p \in ProjectIds |-> IF p = 1 THEN DefaultProject(1) ELSE NoRow]
    /\ topics = [p \in ProjectIds |-> IF p = 1 THEN DefaultTopic(1, 1) ELSE NoRow]
    /\ kafkaTopics = {user_events(1)}
    /\ deleteLog = NoDeleteLog
    /\ nkeys = 0
    /\ nproj = 1
    /\ abody = [w \in Workers |-> NoBody]

QuotaInit ==
    /\ today = 1
    /\ globalRows = [d \in Days |-> IF d = 1 THEN SeededGlobal ELSE NoRow]
    /\ usageRows = [k \in Projects \X Days |-> NoRow]
    /\ gLock = [d \in Days |-> Free]
    /\ uLock = [k \in Projects \X Days |-> Free]
    /\ pc = [w \in Workers |-> "idle"]
    /\ req = [w \in Workers |-> NoReq]
    /\ loc = [w \in Workers |-> NoLoc]
    /\ resp = [w \in Workers |-> NoResp]
    /\ nreq = 0

\* Optional[Tuple[User, Optional[str]]]: None is the empty tuple, a null
\* project_id is 0.
None == <<>>
NoArgs == [jwt_result |-> None, api_key_result |-> None, called |-> FALSE]
NoResolved == [status |-> 0, result |-> None]

ResolverInit ==
    /\ dargs = NoArgs
    /\ dret = NoResolved

\* No publish request has been made; the topic is empty.
NoPublish == [id |-> 0, project |-> 0]
NoPublishResp == [status |-> 0, index |-> -1]
MessageIds == (1..MaxPublishRequests) \X (0..(MaxMessages - 1))

PublishInit ==
    /\ ppc = [w \in Workers |-> "idle"]
    /\ preq = [w \in Workers |-> NoPublish]
    /\ pmsgs = [w \in Workers |-> <<>>]
    /\ pidx = [w \in Workers |-> 0]
    /\ presp = [w \in Workers |-> NoPublishResp]
    /\ futures = [m \in MessageIds |-> "unsent"]
    /\ inflight = {}
    /\ brokerLog = <<>>
    /\ npub = 0
    /\ ptopic = [i \in 1..MaxPublishRequests |-> 0]

\* check_and_increment_usage has not been called.
NoCallReq == [dir |-> "none", project |-> 0, n |-> 0, b |-> 0, today |-> 0]
NoTxn == [retry_count |-> 0, retry_delay |-> 0, g |-> NoRow, u |-> NoRow]
NoCallResp == [status |-> 0, attempts |-> 0, errors |-> <<>>, sleeps |-> <<>>]

RetryInit ==
    /\ cpc = [w \in Workers |-> "idle"]
    /\ creq = [w \in Workers |-> NoCallReq]
    /\ ctx = [w \in Workers |-> NoTxn]
    /\ cresp = [w \in Workers |-> NoCallResp]
    /\ ncic = 0

Init == QuotaInit /\ RegistryInit /\ AuthInit /\ ResolverInit /\ PublishInit /\ RetryInit

\* Two accounts, as two signups and one create_api_key leave them: each with
\* its default project and topic and a token; the first with the API key
\* issued before lookup_hash existed, the second with a key issued after.
TwoTenants ==
    /\ users = [u \in UserIds |->
                  [email |-> IF u = 1 THEN "a@x.io" ELSE "b@x.io",
                   password_hash |-> hash_password("pw1"),
                   is_active |-> TRUE]]
    /\ passwordSet = [u \in UserIds |-> "pw1"]
    /\ projects = [p \in ProjectIds |-> IF p \in UserIds THEN DefaultProject(p) ELSE NoRow]
    /\ topics = [p \in ProjectIds |-> IF p \in UserIds THEN DefaultTopic(p, p) ELSE NoRow]
    /\ kafkaTopics = {user_events(u) : u \in UserIds}
    /\ deleteLog = NoDeleteLog
    /\ apiKeys = [k \in Secrets |->
                    IF k = 0
                    THEN [user_id |-> 1, project_id |-> 1, secret_hash |-> hash_password(0),
                          lookup_hash |-> NoHash]
                    ELSE IF k = 1
                    THEN [user_id |-> 2, project_id |-> 2, secret_hash |-> hash_password(1),
                          lookup_hash |-> generate_lookup_hash(1)]
                    ELSE NoRow]
    /\ nkeys = 1
    /\ nproj = MaxUsers
    /\ minted = {create_jwt(u) : u \in UserIds}
    /\ apc = [w \in Workers |-> "idle"]
    /\ areq = [w \in Workers |-> NoAuthReq]
    /\ aauth = [w \in Workers |-> NoAuth]
    /\ aresp = [w \in Workers |-> NoAuthResp]
    /\ abody = [w \in Workers |-> NoBody]
    /\ refusedKinds = {}
    /\ nauth = 0

\* Both tenants have published on day 1: each default project has its
\* usage_counters row.
TenantSeeded ==
    /\ today = 1
    /\ globalRows = [d \in Days |-> IF d = 1 THEN SeededGlobal ELSE NoRow]
    /\ usageRows = [k \in Projects \X Days |->
                      IF k[2] = 1
                      THEN [ZeroUsage EXCEPT !.messages_in = k[1], !.bytes_in = 10 * k[1]]
                      ELSE NoRow]
    /\ gLock = [d \in Days |-> Free]
    /\ uLock = [k \in Projects \X Days |-> Free]
    /\ pc = [w \in Workers |-> "idle"]
    /\ req = [w \in Workers |-> NoReq]
    /\ loc = [w \in Workers |-> NoLoc]
    /\ resp = [w \in Workers |-> NoResp]
    /\ nreq = 0

TenantInit ==
    TenantSeeded /\ RegistryInit /\ TwoTenants /\ ResolverInit /\ PublishInit /\ RetryInit

(***************************************************************************)
(* quota_service.py: the limit tests of check_quota.                       *)
(***************************************************************************)
\* A check that forgets the byte limits, and one that admits everything.
GlobalVerdict_MessagesOnly(g, r) ==
    IF g.messages_in + r.n > MAX_TOTAL_MESSAGES_IN THEN "global_messages" ELSE "ok"

UserVerdict_MessagesOnly(u, r) ==
    IF r.dir = "in"
    THEN IF u.messages_in + r.n > FREE_TIER_MESSAGES_LIMIT THEN "user_messages" ELSE "ok"
    ELSE IF u.messages_out + r.n > FREE_TIER_MESSAGES_LIMIT THEN "user_messages" ELSE "ok"

UserVerdict_Unchecked(u, r) == "ok"

\* check_quota lines 54-66: the cluster-wide limits, inbound only.
GlobalVerdict(g, r) ==
    IF g.messages_in + r.n > MAX_TOTAL_MESSAGES_IN THEN "global_messages"
    ELSE IF g.bytes_in + r.b > MAX_TOTAL_BYTES_IN THEN "global_bytes"
    ELSE "ok"

\* check_quota lines 99-121: the per-project limits of the request's direction.
UserVerdict(u, r) ==
    IF r.dir = "in"
    THEN IF u.messages_in + r.n > FREE_TIER_MESSAGES_LIMIT THEN "user_messages"
         ELSE IF u.bytes_in + r.b > FREE_TIER_BYTES_LIMIT THEN "user_bytes"
         ELSE "ok"
    ELSE IF u.messages_out + r.n > FREE_TIER_MESSAGES_LIMIT THEN "user_messages"
         ELSE IF u.bytes_out + r.b > FREE_TIER_BYTES_LIMIT THEN "user_bytes"
         ELSE "ok"

\* Variant: the global row counts the messages and not their bytes.
AddGlobal_MessagesOnly(g, r) == [g EXCEPT !.messages_in = @ + r.n]

\* An increment that stores the request's counts instead of adding them.
AddGlobal_Overwrite(g, r) ==
    [g EXCEPT !.messages_in = r.n, !.bytes_in = r.b]

\* increment_usage lines 158-159.
AddGlobal(g, r) ==
    [g EXCEPT !.messages_in = @ + r.n, !.bytes_in = @ + r.b]

\* An increment that counts a request in both directions.
AddUsage_BothDirections(u, r) ==
    [u EXCEPT !.messages_in = @ + r.n, !.bytes_in = @ + r.b,
              !.messages_out = @ + r.n, !.bytes_out = @ + r.b]

\* increment_usage lines 195-200.
AddUsage(u, r) ==
    IF r.dir = "in"
    THEN [u EXCEPT !.messages_in = @ + r.n, !.bytes_in = @ + r.b]
    ELSE [u EXCEPT !.messages_out = @ + r.n, !.bytes_out = @ + r.b]

\* increment_usage line 133: the date the increment is applied to.
IncrementDay(w) == today

(***************************************************************************)
(* The session of a request.                                               *)
(***************************************************************************)
UKey(w) == <<req[w].project, loc[w].qday>>
IKey(w) == <<req[w].project, loc[w].iday>>

\* Session.rollback / Session.close: every row lock and every uncommitted
\* insert of the transaction goes.
ReleasedG(w) == [d \in Days |-> IF gLock[d] = w THEN Free ELSE gLock[d]]
ReleasedU(w) == [k \in Projects \X Days |-> IF uLock[k] = w THEN Free ELSE uLock[k]]

\* An exception leaves the handler: get_db (database.py:36-43) closes the
\* session, which rolls the open transaction back, and the response is sent.
Abort(w, st, err, l, acked) ==
    /\ pc' = [pc EXCEPT ![w] = "done"]
    /\ resp' = [resp EXCEPT ![w] = [status |-> st, error |-> err, acked |-> acked, debited |-> FALSE]]
    /\ loc' = [loc EXCEPT ![w] = l]
    /\ gLock' = ReleasedG(w)
    /\ uLock' = ReleasedU(w)
    /\ UNCHANGED <<notQuota, today, globalRows, usageRows, req, nreq>>

\* Where the caller goes once check_quota has returned: publish produces to
\* the broker (topics.py:179-182); the outbound caller increments at once
\* (topics.py:425-442).
AfterCheck(w, l) ==
    IF req[w].dir = "in"
    THEN /\ pc' = [pc EXCEPT ![w] = "produce"]
         /\ loc' = [loc EXCEPT ![w] = l]
    ELSE /\ pc' = [pc EXCEPT ![w] = "iu_usel"]
         /\ loc' = [loc EXCEPT ![w] = [l EXCEPT !.iday = IncrementDay(w)]]

(***************************************************************************)
(* A request arrives.  publish (topics.py:76-153) has authenticated,       *)
(* resolved project and topic and sized the batch; check_quota reads the   *)
(* date (quota_service.py:32).  The outbound caller is the accounting of   *)
(* one streamed record (topics.py:416-432).                                *)
(***************************************************************************)
Start(w) ==
    /\ pc[w] \in {"idle", "done"}
    /\ nreq < MaxRequests
    /\ \E p \in Projects, dir \in {"in", "out"} :
         \E bt \in (IF dir = "in" THEN Batches ELSE OutBatches) :
            /\ req' = [req EXCEPT ![w] = [dir |-> dir, project |-> p, n |-> bt.n, b |-> bt.b]]
            /\ pc' = [pc EXCEPT ![w] = IF dir = "in" THEN "cq_gsel" ELSE "cq_usel"]
    /\ loc' = [loc EXCEPT ![w] = [NoLoc EXCEPT !.qday = today]]
    /\ resp' = [resp EXCEPT ![w] = NoResp]
    /\ nreq' = nreq + 1
    /\ UNCHANGED <<notQuota, today, globalRows, usageRows, gLock, uLock>>

(***************************************************************************)
(* check_quota (quota_service.py:19-121).                                  *)
(***************************************************************************)
\* Variant: the row is read without FOR UPDATE NOWAIT, whoever holds it.
LockedGlobalCheck_Unlocked(w, d) ==
    LET g == globalRows[d]
        l == [loc[w] EXCEPT !.seenG = g]
    IN IF GlobalVerdict(g, req[w]) # "ok"
       THEN Abort(w, 429, GlobalVerdict(g, req[w]), l, 0)
       ELSE /\ loc' = [loc EXCEPT ![w] = l]
            /\ pc' = [pc EXCEPT ![w] = "cq_usel"]
            /\ UNCHANGED <<notQuota, today, globalRows, usageRows, gLock, uLock, req, resp, nreq>>

\* SELECT ... FOR UPDATE NOWAIT on a visible global row, then lines 54-66.
LockedGlobalCheck(w, d) ==
    IF gLock[d] \notin {Free, w}
    THEN Abort(w, 500, "LockNotAvailable", loc[w], 0)
    ELSE LET g == globalRows[d]
             l == [loc[w] EXCEPT !.seenG = g]
         IN IF GlobalVerdict(g, req[w]) # "ok"
            THEN Abort(w, 429, GlobalVerdict(g, req[w]), l, 0)
            ELSE /\ gLock' = [gLock EXCEPT ![d] = w]
                 /\ loc' = [loc EXCEPT ![w] = l]
                 /\ pc' = [pc EXCEPT ![w] = "cq_usel"]
                 /\ UNCHANGED <<notQuota, today, globalRows, usageRows, uLock, req, resp, nreq>>

\* lines 37-41
CQ_GlobalSelect(w) ==
    /\ pc[w] = "cq_gsel"
    /\ IF globalRows[loc[w].qday] = NoRow
       THEN /\ pc' = [pc EXCEPT ![w] = "cq_gins"]
            /\ UNCHANGED <<notQuota, today, globalRows, usageRows, gLock, uLock, req, loc, resp, nreq>>
       ELSE LockedGlobalCheck(w, loc[w].qday)

\* lines 42-48: INSERT and COMMIT
CQ_GlobalInsert(w) ==
    /\ pc[w] = "cq_gins"
    /\ LET d == loc[w].qday
       IN /\ ~(globalRows[d] = NoRow /\ gLock[d] \notin {Free, w})
          /\ IF globalRows[d] # NoRow
             THEN Abort(w, 500, "IntegrityError", loc[w], 0)
             ELSE /\ globalRows' = [globalRows EXCEPT ![d] = ZeroGlobal]
                  /\ pc' = [pc EXCEPT ![w] = "cq_gresel"]
                  /\ UNCHANGED <<notQuota, today, usageRows, gLock, uLock, req, loc, resp, nreq>>

\* lines 50-66
CQ_GlobalReselect(w) ==
    /\ pc[w] = "cq_gresel"
    /\ LockedGlobalCheck(w, loc[w].qday)

\* The per-project row is locked (or freshly inserted): lines 99-121.
UserCheck(w, u) ==
    LET l == [loc[w] EXCEPT !.seenU = u]
    IN IF UserVerdict(u, req[w]) # "ok"
       THEN Abort(w, 429, UserVerdict(u, req[w]), l, 0)
       ELSE /\ uLock' = [uLock EXCEPT ![UKey(w)] = w]
            /\ AfterCheck(w, l)
            /\ UNCHANGED <<notQuota, today, globalRows, usageRows, gLock, req, resp, nreq>>

\* lines 70-78
CQ_UsageSelect(w) ==
    /\ pc[w] = "cq_usel"
    /\ IF usageRows[UKey(w)] = NoRow
       THEN /\ pc' = [pc EXCEPT ![w] = "cq_uins"]
            /\ UNCHANGED <<notQuota, today, globalRows, usageRows, gLock, uLock, req, loc, resp, nreq>>
       ELSE IF uLock[UKey(w)] \notin {Free, w}
            THEN Abort(w, 500, "LockNotAvailable", loc[w], 0)
            ELSE UserCheck(w, usageRows[UKey(w)])

\* lines 79-97: INSERT (flush), uncommitted, and the re-query of the own row
CQ_UsageInsert(w) ==
    /\ pc[w] = "cq_uins"
    /\ ~(usageRows[UKey(w)] = NoRow /\ uLock[UKey(w)] \notin {Free, w})
    /\ IF usageRows[UKey(w)] # NoRow
       THEN Abort(w, 500, "IntegrityError", loc[w], 0)
       ELSE UserCheck(w, ZeroUsage)

(***************************************************************************)
(* publish_messages (kafka_service.py:136-159) as publish calls it         *)
(* (topics.py:179-198): every send is awaited; the first failure raises,   *)
(* publish answers 500 and increment_usage is not reached.                 *)
(***************************************************************************)
Produce(w) ==
    /\ pc[w] = "produce"
    /\ \/ /\ pc' = [pc EXCEPT ![w] = "iu_gsel"]
          /\ resp' = [resp EXCEPT ![w].acked = req[w].n]
          /\ loc' = [loc EXCEPT ![w].iday = IncrementDay(w)]
          /\ UNCHANGED <<notQuota, today, globalRows, usageRows, gLock, uLock, req, nreq>>
       \/ \E k \in {0, req[w].n - 1} :
             Abort(w, 500, "kafka_error", loc[w], k)

(***************************************************************************)
(* increment_usage (quota_service.py:124-202).                             *)
(***************************************************************************)
\* lines 138-142
IU_GlobalSelect(w) ==
    /\ pc[w] = "iu_gsel"
    /\ LET d == loc[w].iday
       IN IF globalRows[d] = NoRow /\ gLock[d] # w
          THEN /\ pc' = [pc EXCEPT ![w] = "iu_gins"]
               /\ UNCHANGED <<notQuota, today, globalRows, usageRows, gLock, uLock, req, loc, resp, nreq>>
          ELSE IF gLock[d] \notin {Free, w}
               THEN Abort(w, 500, "LockNotAvailable", loc[w], resp[w].acked)
               ELSE /\ gLock' = [gLock EXCEPT ![d] = w]
                    /\ pc' = [pc EXCEPT ![w] = "iu_usel"]
                    /\ UNCHANGED <<notQuota, today, globalRows, usageRows, uLock, req, loc, resp, nreq>>

\* lines 143-156: INSERT (flush); a failed flush leaves the session unusable
\* and the commit of line 153 raises as well.
IU_GlobalInsert(w) ==
    /\ pc[w] = "iu_gins"
    /\ LET d == loc[w].iday
       IN /\ ~(globalRows[d] = NoRow /\ gLock[d] \notin {Free, w})
          /\ IF globalRows[d] # NoRow
             THEN Abort(w, 500, "IntegrityError", loc[w], resp[w].acked)
             ELSE /\ gLock' = [gLock EXCEPT ![d] = w]
                  /\ pc' = [pc EXCEPT ![w] = "iu_usel"]
                  /\ UNCHANGED <<notQuota, today, globalRows, usageRows, uLock, req, loc, resp, nreq>>

\* lines 163-171
IU_UsageSelect(w) ==
    /\ pc[w] = "iu_usel"
    /\ IF usageRows[IKey(w)] = NoRow /\ uLock[IKey(w)] # w
       THEN /\ pc' = [pc EXCEPT ![w] = "iu_uins"]
            /\ UNCHANGED <<notQuota, today, globalRows, usageRows, gLock, uLock, req, loc, resp, nreq>>
       ELSE IF uLock[IKey(w)] \notin {Free, w}
            THEN Abort(w, 500, "LockNotAvailable", loc[w], resp[w].acked)
            ELSE /\ uLock' = [uLock EXCEPT ![IKey(w)] = w]
                 /\ pc' = [pc EXCEPT ![w] = "iu_commit"]
                 /\ UNCHANGED <<notQuota, today, globalRows, usageRows, gLock, req, loc, resp, nreq>>

\* lines 172-193
IU_UsageInsert(w) ==
    /\ pc[w] = "iu_uins"
    /\ ~(usageRows[IKey(w)] = NoRow /\ uLock[IKey(w)] \notin {Free, w})
    /\ IF usageRows[IKey(w)] # NoRow
       THEN Abort(w, 500, "IntegrityError", loc[w], resp[w].acked)
       ELSE /\ uLock' = [uLock EXCEPT ![IKey(w)] = w]
            /\ pc' = [pc EXCEPT ![w] = "iu_commit"]
            /\ UNCHANGED <<notQuota, today, globalRows, usageRows, gLock, req, loc, resp, nreq>>

\* lines 158-159, 195-202: the increments and the COMMIT, which also makes
\* the rows this transaction inserted visible and releases its locks.
IU_Commit(w) ==
    /\ pc[w] = "iu_commit"
    /\ globalRows' =
         [d \in Days |->
            LET base == IF globalRows[d] = NoRow /\ gLock[d] = w THEN ZeroGlobal ELSE globalRows[d]
            IN IF req[w].dir = "in" /\ d = loc[w].iday THEN AddGlobal(base, req[w]) ELSE base]
    /\ usageRows' =
         [k \in Projects \X Days |->
            LET base == IF usageRows[k] = NoRow /\ uLock[k] = w THEN ZeroUsage ELSE usageRows[k]
            IN IF k = IKey(w) THEN AddUsage(base, req[w]) ELSE base]
    /\ gLock' = ReleasedG(w)
    /\ uLock' = ReleasedU(w)
    /\ pc' = [pc EXCEPT ![w] = "done"]
    /\ resp' = [resp EXCEPT ![w].status = 200, ![w].debited = TRUE]
    /\ UNCHANGED <<notQuota, today, req, loc, nreq>>

\* The calendar day changes.
Midnight ==
    /\ today < MaxDay
    /\ today' = today + 1
    /\ UNCHANGED <<notQuota, globalRows, usageRows, gLock, uLock, pc, req, loc, resp, nreq>>

Next ==
    \/ \E w \in Workers : Start(w)
    \/ \E w \in Workers : CQ_GlobalSelect(w)
    \/ \E w \in Workers : CQ_GlobalInsert(w)
    \/ \E w \in Workers : CQ_GlobalReselect(w)
    \/ \E w \in Workers : CQ_UsageSelect(w)
    \/ \E w \in Workers : CQ_UsageInsert(w)
    \/ \E w \in Workers : Produce(w)
    \/ \E w \in Workers : IU_GlobalSelect(w)
    \/ \E w \in Workers : IU_GlobalInsert(w)
    \/ \E w \in Workers : IU_UsageSelect(w)
    \/ \E w \in Workers : IU_UsageInsert(w)
    \/ \E w \in Workers : IU_Commit(w)
    \/ Midnight

Spec == Init /\ [][Next]_vars

(***************************************************************************)
(* connection_tracker.py: the registry of open streams, a dictionary from  *)
(* user_id to a set of ConnectionInfo, every access under _lock.           *)
(***************************************************************************)
\* The descriptors a user holds; a user without a key holds none.
Held(conns, u) == IF u \in DOMAIN conns THEN conns[u] ELSE {}

HeldIds(conns, u) == {c.connection_id : c \in Held(conns, u)}

\* A limit test that lets one descriptor too many in.
AtLimit_OffByOne(held) == Cardinality(held) > MAX_CONNECTIONS_PER_USER

\* register_connection line 30.
AtLimit(held) == Cardinality(held) >= MAX_CONNECTIONS_PER_USER

\* register_connection line 24: the connection id is generated (uuid4, a fresh
\* value) before the lock is taken.
RegisterCall(w) ==
    /\ rpc[w] = "idle"
    /\ ncalls < MaxCalls
    /\ \E u \in Tenants, t \in TopicNames :
          rcall' = [rcall EXCEPT ![w] =
                       [user |-> u, topic |-> t, connection_id |-> ncalls + 1]]
    /\ rpc' = [rpc EXCEPT ![w] = "register"]
    /\ ncalls' = ncalls + 1
    /\ UNCHANGED <<notRegistry, connections, rret, streamResp, streamObs>>

\* register_connection lines 26-38, one critical section of _lock.  The
\* refusal returns (False, ""), the empty id written 0 here.
RegisterLocked(w) ==
    /\ rpc[w] = "register"
    /\ LET u == rcall[w].user
           withKey == [x \in DOMAIN connections \cup {u} |-> Held(connections, x)]
           info == [connection_id |-> rcall[w].connection_id, topic_name |-> rcall[w].topic]
       IN IF AtLimit(withKey[u])
          THEN /\ connections' = withKey
               /\ rret' = [rret EXCEPT ![w] =
                             [op |-> "register", success |-> FALSE, connection_id |-> 0]]
          ELSE /\ connections' = [withKey EXCEPT ![u] = @ \cup {info}]
               /\ rret' = [rret EXCEPT ![w] =
                             [op |-> "register", success |-> TRUE,
                              connection_id |-> info.connection_id]]
    /\ rpc' = [rpc EXCEPT ![w] = "idle"]
    /\ UNCHANGED <<notRegistry, rcall, streamResp, streamObs, ncalls>>

\* A removal that leaves the user's key with the empty set.
unregister_connection_NoPrune(conns, user_id, connection_id) ==
    IF user_id \in DOMAIN conns
    THEN [conns EXCEPT ![user_id] = {c \in @ : c.connection_id # connection_id}]
    ELSE conns

\* unregister_connection lines 44-51: the dictionary the call leaves.
unregister_connection(conns, user_id, connection_id) ==
    IF user_id \in DOMAIN conns
    THEN LET rest == {c \in conns[user_id] : c.connection_id # connection_id}
         IN IF rest = {}
            THEN [x \in DOMAIN conns \ {user_id} |-> conns[x]]
            ELSE [conns EXCEPT ![user_id] = rest]
    ELSE conns

\* unregister_connection lines 41-51, one critical section of _lock.
Unregister(w) ==
    /\ rpc[w] = "idle"
    /\ ncalls < MaxCalls
    /\ \E u \in Tenants, id \in 1..(ncalls + 1) :
          /\ connections' = unregister_connection(connections, u, id)
          /\ rcall' = [rcall EXCEPT ![w] = [user |-> u, topic |-> "none", connection_id |-> id]]
    /\ rret' = [rret EXCEPT ![w] = [op |-> "unregister", success |-> FALSE, connection_id |-> 0]]
    /\ ncalls' = ncalls + 1
    /\ UNCHANGED <<notRegistry, rpc, streamResp, streamObs>>

(***************************************************************************)
(* stream (topics.py:226-546), called by an authenticated user.  Line 234  *)
(* reads the local `user` that line 235 assigns: the read raises           *)
(* UnboundLocalError on every call, the global handler (main.py) answers   *)
(* 500, and nothing below line 234 runs: no project or topic lookup, no    *)
(* register_connection, no consumer, no generator.  The one trace of the   *)
(* request is the handler's log entry (main.py:176-185).                   *)
(***************************************************************************)
Stream(w) ==
    /\ rpc[w] = "idle"
    /\ ncalls < MaxCalls
    /\ \E u \in Tenants, t \in TopicNames :
          streamResp' = [streamResp EXCEPT ![w] =
                            [user |-> u, topic |-> t, status |-> 500,
                             error |-> "UnboundLocalError", connection_id |-> 0]]
    /\ streamObs' = [streamObs EXCEPT ![w] =
                        [NoStreamObs EXCEPT !.log = <<"unhandled_exception">>]]
    /\ ncalls' = ncalls + 1
    /\ UNCHANGED <<notRegistry, connections, rpc, rcall, rret>>

RegistryNext ==
    \/ \E w \in Workers : RegisterCall(w)
    \/ \E w \in Workers : RegisterLocked(w)
    \/ \E w \in Workers : Unregister(w)
    \/ \E w \in Workers : Stream(w)

RegistrySpec == Init /\ [][RegistryNext]_vars

(***************************************************************************)
(* routers/auth.py, routers/api_keys.py, dependencies.py: accounts, tokens *)
(* and API keys.  Every user has the default project signup creates, which *)
(* carries the user's id here.                                             *)
(***************************************************************************)
\* db.query(User).filter(User.email == email).first(), None written 0.
UserByEmail(email) ==
    IF \E u \in UserIds : users[u] # NoRow /\ users[u].email = email
    THEN CHOOSE u \in UserIds : users[u] # NoRow /\ users[u].email = email
    ELSE 0

IsActive(u) == u # 0 /\ users[u] # NoRow /\ users[u].is_active

\* A login that does not look at is_active.
LoginRefused_AnyAccount(u) == u = 0

\* login line 130: `if not user or not user.is_active`
LoginRefused(u) == u = 0 \/ ~users[u].is_active

\* dependencies.py:12-29: (user, None) or None.  HTTPBearer(auto_error=False)
\* hands over no credentials unless the scheme is Bearer.
get_current_user_jwt(header) ==
    IF header.scheme # "Bearer" THEN None
    ELSE LET user_id == decode_jwt(header.cred)
         IN IF user_id # 0 /\ IsActive(user_id) THEN <<user_id, 0>> ELSE None

\* A resolver in which the API key takes precedence.
get_current_user_KeyFirst(jwt_result, api_key_result) ==
    IF api_key_result # None THEN [status |-> 200, result |-> api_key_result]
    ELSE IF jwt_result # None THEN [status |-> 200, result |-> jwt_result]
    ELSE [status |-> 401, result |-> None]

\* dependencies.py:90-112: the tuple returned, or the 401 raised.
get_current_user(jwt_result, api_key_result) ==
    IF jwt_result # None THEN [status |-> 200, result |-> jwt_result]
    ELSE IF api_key_result # None THEN [status |-> 200, result |-> api_key_result]
    ELSE [status |-> 401, result |-> None]

\* The response leaves, with the user id its body carries (none written 0)
\* and the rows it lists, to the request that named `target` in its path or
\* body; the request and what was resolved for it are gone.
RespondTo(w, op, st, user, rows, target) ==
    /\ aresp' = [aresp EXCEPT ![w] = [op |-> op, status |-> st, user |-> user,
                                       rows |-> rows, target |-> target]]
    /\ apc' = [apc EXCEPT ![w] = "idle"]
    /\ areq' = [areq EXCEPT ![w] = NoAuthReq]
    /\ aauth' = [aauth EXCEPT ![w] = NoAuth]

RespondRows(w, op, st, user, rows) == RespondTo(w, op, st, user, rows, NoTarget)

Respond(w, op, st, user) == RespondRows(w, op, st, user, {})

\* A request arrives and is routed: to the handler of an open endpoint, or to
\* the dependencies of get_current_user (dependencies.py:90-112), of which
\* get_current_user_jwt answers for a Bearer header and
\* get_current_user_api_key for an ApiKey header (lines 17-18 and 42-43).  The
\* body of the request is drawn where the handler reads it.
Request(w) ==
    /\ apc[w] = "idle"
    /\ nauth < MaxAuthRequests
    /\ \/ \E op \in {"signup", "login"} :
             /\ areq' = [areq EXCEPT ![w] = [NoAuthReq EXCEPT !.op = op]]
             /\ apc' = [apc EXCEPT ![w] = op]
       \/ \E h \in Headers :
             /\ areq' = [areq EXCEPT ![w] = [op |-> "authenticated", header |-> h]]
             /\ apc' = [apc EXCEPT ![w] =
                           IF h.scheme = "ApiKey" THEN "key_lookup" ELSE "jwt_auth"]
    /\ aresp' = [aresp EXCEPT ![w] = NoAuthResp]
    /\ abody' = [abody EXCEPT ![w] = NoBody]
    /\ nauth' = nauth + 1
    /\ UNCHANGED <<notAuth, users, passwordSet, apiKeys, minted, aauth, refusedKinds, tenantVars>>

\* signup, lines 20-43: the email is normalized and looked up.
signup(w) ==
    /\ apc[w] = "signup"
    /\ \E raw \in RawEmails, pw \in Passwords :
          /\ abody' = [abody EXCEPT ![w] = [email |-> raw, password |-> pw]]
          /\ IF UserByEmail(Normalize(raw)) # 0
             THEN Respond(w, "signup", 400, 0)
             ELSE /\ apc' = [apc EXCEPT ![w] = "signup_insert"]
                  /\ UNCHANGED <<areq, aauth, aresp>>
    /\ UNCHANGED <<notAuth, users, passwordSet, apiKeys, minted, refusedKinds, nauth, tenantVars>>

\* signup, lines 45-119: user, default project and topic are inserted and
\* committed together.  users.email is unique (models.py:13): the INSERT of
\* line 52 waits for a transaction that inserted the same email and raises
\* IntegrityError once that one has committed; the exception is not caught
\* and the global handler answers 500 (main.py:168-192).  create_user_topic
\* may fail; the topic row gets the same kafka_topic_name either way.
signup_insert(w) ==
    /\ apc[w] = "signup_insert"
    /\ LET email == Normalize(abody[w].email)
           free == {u \in UserIds : users[u] = NoRow}
           p == nproj + 1
       IN IF UserByEmail(email) # 0
          THEN /\ Respond(w, "signup", 500, 0)
               /\ UNCHANGED <<users, passwordSet, minted, tenantVars>>
          ELSE /\ free # {}
               /\ p \in ProjectIds
               /\ LET new == CHOOSE u \in free : \A v \in free : u <= v
                  IN /\ users' = [users EXCEPT ![new] =
                                    [email |-> email,
                                     password_hash |-> hash_password(abody[w].password),
                                     is_active |-> TRUE]]
                     /\ passwordSet' = [passwordSet EXCEPT ![new] = abody[w].password]
                     /\ projects' = [projects EXCEPT ![p] = DefaultProject(new)]
                     /\ topics' = [topics EXCEPT ![p] = DefaultTopic(new, p)]
                     /\ nproj' = p
                     /\ \E created \in BOOLEAN :
                           kafkaTopics' = IF created THEN kafkaTopics \cup {user_events(new)}
                                          ELSE kafkaTopics
                     /\ minted' = minted \cup {create_jwt(new)}
                     /\ Respond(w, "signup", 200, new)
                     /\ UNCHANGED <<nkeys, deleteLog>>
    /\ UNCHANGED <<notAuth, apiKeys, refusedKinds, nauth, abody>>

\* login (routers/auth.py:122-178)
login(w) ==
    /\ apc[w] = "login"
    /\ \E raw \in RawEmails, pw \in Passwords :
          LET user == UserByEmail(Normalize(raw))
          IN /\ abody' = [abody EXCEPT ![w] = [email |-> raw, password |-> pw]]
             /\ IF LoginRefused(user)
                THEN /\ Respond(w, "login", 401, 0)
                     /\ minted' = minted
                     /\ refusedKinds' =
                           IF user # 0 /\ verify_password(pw, users[user].password_hash)
                           THEN refusedKinds \cup {"login"} ELSE refusedKinds
                ELSE IF ~verify_password(pw, users[user].password_hash)
                THEN /\ Respond(w, "login", 401, 0)
                     /\ UNCHANGED <<minted, refusedKinds>>
                ELSE /\ Respond(w, "login", 200, user)
                     /\ minted' = minted \cup {create_jwt(user)}
                     /\ refusedKinds' = refusedKinds
    /\ UNCHANGED <<notAuth, users, passwordSet, apiKeys, nauth, tenantVars>>

\* get_current_user with a Bearer header: get_current_user_jwt decides, and
\* 401 is raised at line 109 when it returns None.
JwtAuth(w) ==
    /\ apc[w] = "jwt_auth"
    /\ LET r == get_current_user(get_current_user_jwt(areq[w].header), None)
       IN IF r.status = 200
          THEN /\ apc' = [apc EXCEPT ![w] = "body"]
               /\ aauth' = [aauth EXCEPT ![w] = [NoAuth EXCEPT !.user = r.result[1],
                                                               !.project = r.result[2]]]
               /\ UNCHANGED <<areq, aresp, refusedKinds>>
          ELSE /\ Respond(w, "get_current_user", r.status, 0)
               /\ refusedKinds' =
                     IF areq[w].header.cred \in minted THEN refusedKinds \cup {"bearer"}
                     ELSE refusedKinds
    /\ UNCHANGED <<notAuth, users, passwordSet, apiKeys, minted, nauth, tenantVars, abody>>

\* get_current_user_api_key lines 47-61: the lookup by hash joined with the
\* active users.  The commit of line 61 writes last_used_at, a timestamp no
\* code path reads back to decide anything; it is not kept here.
KeyLookup(w) ==
    /\ apc[w] = "key_lookup"
    /\ LET secret == areq[w].header.cred
           found == {k \in Secrets :
                       /\ apiKeys[k] # NoRow
                       /\ apiKeys[k].lookup_hash = generate_lookup_hash(secret)
                       /\ IsActive(apiKeys[k].user_id)}
       IN IF \E k \in found : verify_password(secret, apiKeys[k].secret_hash)
          THEN LET k == CHOOSE x \in found : verify_password(secret, apiKeys[x].secret_hash)
               IN /\ aauth' = [aauth EXCEPT ![w].key = k]
                  /\ apc' = [apc EXCEPT ![w] = "key_recheck"]
          ELSE /\ apc' = [apc EXCEPT ![w] = "key_fallback"]
               /\ aauth' = aauth
    /\ UNCHANGED <<notAuth, users, passwordSet, apiKeys, minted, areq, aresp,
                   refusedKinds, nauth, tenantVars, abody>>

\* lines 60-66, and 83-85 of the fallback: last_used_at is committed and the
\* user is read again through api_key.user_id.  The session expires its
\* objects at commit (database.py:32), so a key row deleted since it was read
\* fails the UPDATE (StaleDataError) or the reload (ObjectDeletedError); the
\* global handler answers 500.
KeyRecheck(w) ==
    /\ apc[w] \in {"key_recheck", "fallback_recheck"}
    /\ LET row == apiKeys[aauth[w].key]
           r == get_current_user(get_current_user_jwt(areq[w].header),
                                 <<row.user_id, row.project_id>>)
       IN IF row = NoRow
          THEN /\ Respond(w, "get_current_user", 500, 0)
               /\ refusedKinds' = refusedKinds
          ELSE IF IsActive(row.user_id)
          THEN /\ aauth' = [aauth EXCEPT ![w].user = r.result[1], ![w].project = r.result[2]]
               /\ apc' = [apc EXCEPT ![w] = "body"]
               /\ UNCHANGED <<areq, aresp, refusedKinds>>
          ELSE IF apc[w] = "key_recheck"
          THEN /\ apc' = [apc EXCEPT ![w] = "key_fallback"]
               /\ UNCHANGED <<areq, aauth, aresp, refusedKinds>>
          ELSE \* the other keys of the list were issued with other secrets
               /\ Respond(w, "get_current_user", get_current_user(None, None).status, 0)
               /\ refusedKinds' = refusedKinds \cup {"apikey"}
    /\ UNCHANGED <<notAuth, users, passwordSet, apiKeys, minted, nauth, tenantVars, abody>>

\* Variant: the matched row is left without its digest.
backfill_Skipped(row, secret) == row

\* dependencies.py:80: api_key.lookup_hash = lookup_hash, the digest of the
\* secret presented (line 45).
backfill(row, secret) == [row EXCEPT !.lookup_hash = generate_lookup_hash(secret)]

\* lines 68-81 and 87: the keys without lookup_hash of active users are read,
\* the one the secret verifies against is backfilled and committed.
KeyFallback(w) ==
    /\ apc[w] = "key_fallback"
    /\ LET secret == areq[w].header.cred
           legacy == {k \in Secrets :
                        /\ apiKeys[k] # NoRow
                        /\ apiKeys[k].lookup_hash = NoHash
                        /\ IsActive(apiKeys[k].user_id)}
       IN IF \E k \in legacy : verify_password(secret, apiKeys[k].secret_hash)
          THEN LET k == CHOOSE x \in legacy : verify_password(secret, apiKeys[x].secret_hash)
               IN /\ apiKeys' = [apiKeys EXCEPT ![k] = backfill(apiKeys[k], secret)]
                  /\ aauth' = [aauth EXCEPT ![w].key = k]
                  /\ apc' = [apc EXCEPT ![w] = "fallback_recheck"]
                  /\ UNCHANGED <<areq, aresp, refusedKinds>>
          ELSE /\ Respond(w, "get_current_user", get_current_user(None, None).status, 0)
               /\ refusedKinds' =
                     IF apiKeys[secret] # NoRow /\ ~IsActive(apiKeys[secret].user_id)
                     THEN refusedKinds \cup {"apikey"} ELSE refusedKinds
               /\ apiKeys' = apiKeys
    /\ UNCHANGED <<notAuth, users, passwordSet, minted, nauth, tenantVars, abody>>

\* get_me (routers/auth.py:181-194)
get_me(w) ==
    /\ apc[w] = "body"
    /\ Respond(w, "get_me", 200, aauth[w].user)
    /\ UNCHANGED <<notAuth, users, passwordSet, apiKeys, minted, refusedKinds, nauth, tenantVars, abody>>

\* update_me, lines 197-237: the body is validated and a new email is looked
\* up among the other users.
update_me(w) ==
    /\ apc[w] = "body"
    /\ \E raw \in RawEmails \cup {"none"}, pw \in Passwords \cup {"none"} :
          LET user == aauth[w].user
              other == \E u \in UserIds \ {user} :
                          users[u] # NoRow /\ users[u].email = Normalize(raw)
          IN /\ abody' = [abody EXCEPT ![w] = [email |-> raw, password |-> pw]]
             /\ IF (raw = "none" /\ pw = "none") \/ (raw # "none" /\ other)
                THEN Respond(w, "update_me", 400, 0)
                ELSE /\ apc' = [apc EXCEPT ![w] = "update_commit"]
                     /\ UNCHANGED <<areq, aauth, aresp>>
    /\ UNCHANGED <<notAuth, users, passwordSet, apiKeys, minted, refusedKinds, nauth, tenantVars>>

\* update_me, lines 239-249: the commit writes the columns the handler
\* assigned, email and password_hash, to the row of user.id.  An email that
\* another row has taken since the lookup violates the unique constraint:
\* IntegrityError, not caught, answered 500 by the global handler.
update_me_commit(w) ==
    /\ apc[w] = "update_commit"
    /\ LET user == aauth[w].user
           raw == abody[w].email
           pw == abody[w].password
           new_email == Normalize(raw)
           other == \E u \in UserIds \ {user} :
                       users[u] # NoRow /\ users[u].email = new_email
           withEmail == IF raw = "none" THEN users[user]
                        ELSE [users[user] EXCEPT !.email = new_email]
           withBoth == IF pw = "none" THEN withEmail
                       ELSE [withEmail EXCEPT !.password_hash = hash_password(pw)]
       IN IF raw # "none" /\ other
          THEN Respond(w, "update_me", 500, 0) /\ UNCHANGED <<users, passwordSet>>
          ELSE /\ Respond(w, "update_me", 200, user)
               /\ users' = [users EXCEPT ![user] = withBoth]
               /\ passwordSet' = IF pw = "none" THEN passwordSet
                                 ELSE [passwordSet EXCEPT ![user] = pw]
    /\ UNCHANGED <<notAuth, apiKeys, minted, refusedKinds, nauth, tenantVars, abody>>

\* The kafka_topic_name of the topics rows of the user's projects
\* (kafka_service.py:199-216).
UserTopicNames(user) ==
    {topics[p].kafka_topic_name :
        p \in {q \in ProjectIds : /\ projects[q] # NoRow
                                  /\ projects[q].user_id = user
                                  /\ topics[q] # NoRow}}

\* The orders in which the query of kafka_service.py:216 may return the
\* topics rows: it has no ORDER BY.
Orderings(S) ==
    {f \in [1..Cardinality(S) -> S] : \A i, j \in DOMAIN f : i # j => f[i] # f[j]}

\* A loop that the first failing deletion ends.
delete_user_topics_StopAtFailure(names, failing) ==
    LET attempted == {i \in DOMAIN names : \A j \in 1..(i - 1) : names[j] \notin failing}
    IN [deleted |-> {names[i] : i \in {j \in attempted : names[j] \notin failing}},
        failed |-> {names[i] : i \in {j \in attempted : names[j] \in failing}}]

\* delete_user_topics (kafka_service.py:190-261), the loop of lines 232-249:
\* delete_topic is called for each row in turn, inside a try of its own; it
\* logs kafka_topic_deleted or kafka_topic_deletion_failed (lines 162-187).
\* names is the rows' kafka_topic_name in the order of the query, failing the
\* names whose admin_client.delete_topics call raises.
delete_user_topics(names, failing) ==
    LET attempted == DOMAIN names
    IN [deleted |-> {names[i] : i \in {j \in attempted : names[j] \notin failing}},
        failed |-> {names[i] : i \in {j \in attempted : names[j] \in failing}}]

\* delete_me (routers/auth.py:252-282).  delete_user_topics deletes the
\* broker topics one by one; each deletion may fail, which is logged and
\* ignored.  No row is deleted.
delete_me(w) ==
    /\ apc[w] = "body"
    /\ LET user == aauth[w].user
       IN \E names \in Orderings(UserTopicNames(user)), failing \in SUBSET UserTopicNames(user) :
             LET log == delete_user_topics(names, failing)
             IN /\ kafkaTopics' = kafkaTopics \ log.deleted
                /\ deleteLog' = [user |-> user, deleted |-> log.deleted, failed |-> log.failed]
    /\ users' = [users EXCEPT ![aauth[w].user].is_active = FALSE]
    /\ Respond(w, "delete_me", 200, 0)
    /\ UNCHANGED <<notAuth, passwordSet, apiKeys, minted, refusedKinds, nauth, projects, topics,
                   nkeys, nproj, abody>>

\* The rows a response lists or a handler looks up, by table and id.
KeyRow(k) == [kind |-> "api_key", id |-> k]
ProjectRow(p) == [kind |-> "project", id |-> p]
TopicRow(p) == [kind |-> "topic", id |-> p]
TopicName(n) == [kind |-> "topic_name", id |-> n]

\* db.query(Project).filter(Project.id == project_id, Project.user_id == user.id)
OwnProject(user, project_id) ==
    /\ project_id \in ProjectIds
    /\ projects[project_id] # NoRow
    /\ projects[project_id].user_id = user

\* create_api_key (routers/api_keys.py:36-83); secrets.token_urlsafe(32) is a
\* secret no key was ever issued with.
create_api_key(w) ==
    /\ apc[w] = "body"
    /\ \E project_id \in ProjectIds :
          IF ~OwnProject(aauth[w].user, project_id)
          THEN /\ RespondTo(w, "create_api_key", 404, 0, {}, ProjectRow(project_id))
               /\ UNCHANGED <<apiKeys, nkeys>>
          ELSE /\ nkeys < MaxKeys
               /\ LET secret == nkeys + 1
                  IN /\ apiKeys' = [apiKeys EXCEPT ![secret] =
                                       [user_id |-> aauth[w].user,
                                        project_id |-> project_id,
                                        secret_hash |-> hash_password(secret),
                                        lookup_hash |-> generate_lookup_hash(secret)]]
                     /\ RespondTo(w, "create_api_key", 200, aauth[w].user,
                                  {KeyRow(secret)}, ProjectRow(project_id))
               /\ nkeys' = nkeys + 1
    /\ UNCHANGED <<notAuth, users, passwordSet, minted, refusedKinds, nauth, projects, topics,
                   kafkaTopics, deleteLog, nproj, abody>>

\* delete_api_key (routers/api_keys.py:86-111)
delete_api_key(w) ==
    /\ apc[w] = "body"
    /\ \E k \in Secrets :
          IF apiKeys[k] # NoRow /\ apiKeys[k].user_id = aauth[w].user
          THEN /\ RespondTo(w, "delete_api_key", 200, 0, {}, KeyRow(k))
               /\ apiKeys' = [apiKeys EXCEPT ![k] = NoRow]
          ELSE /\ RespondTo(w, "delete_api_key", 404, 0, {}, KeyRow(k))
               /\ apiKeys' = apiKeys
    /\ UNCHANGED <<notAuth, users, passwordSet, minted, refusedKinds, nauth, tenantVars, abody>>

AuthNext ==
    \/ \E w \in Workers : Request(w)
    \/ \E w \in Workers : signup(w)
    \/ \E w \in Workers : signup_insert(w)
    \/ \E w \in Workers : login(w)
    \/ \E w \in Workers : JwtAuth(w)
    \/ \E w \in Workers : KeyLookup(w)
    \/ \E w \in Workers : KeyRecheck(w)
    \/ \E w \in Workers : KeyFallback(w)
    \/ \E w \in Workers : get_me(w)
    \/ \E w \in Workers : update_me(w)
    \/ \E w \in Workers : update_me_commit(w)
    \/ \E w \in Workers : delete_me(w)
    \/ \E w \in Workers : create_api_key(w)
    \/ \E w \in Workers : delete_api_key(w)

AuthSpec == Init /\ [][AuthNext]_vars

(***************************************************************************)
(* routers/api_keys.py, routers/projects.py, routers/topics.py,            *)
(* routers/usage.py: the endpoints behind get_current_user, served to two  *)
(* tenants.  The rate limiter in front of them is left out.                *)
(***************************************************************************)
\* A request with an Authorization header arrives.
TenantRequest(w) ==
    /\ apc[w] = "idle"
    /\ nauth < MaxTenantRequests
    /\ \E h \in Headers :
          /\ areq' = [areq EXCEPT ![w] = [op |-> "authenticated", header |-> h]]
          /\ apc' = [apc EXCEPT ![w] =
                        IF h.scheme = "ApiKey" THEN "key_lookup" ELSE "jwt_auth"]
    /\ aresp' = [aresp EXCEPT ![w] = NoAuthResp]
    /\ nauth' = nauth + 1
    /\ UNCHANGED <<notAuth, users, passwordSet, apiKeys, minted, aauth, refusedKinds, tenantVars, abody>>

\* The frame of a handler that reads only.
ReadOnly ==
    UNCHANGED <<notAuth, users, passwordSet, apiKeys, minted, refusedKinds, nauth, tenantVars, abody>>

ProjectsOf(user) == {p \in ProjectIds : OwnProject(user, p)}
KeysOf(user) == {k \in Secrets : apiKeys[k] # NoRow /\ apiKeys[k].user_id = user}
TopicsIn(ps) == {t \in ProjectIds : topics[t] # NoRow /\ topics[t].project_id \in ps}

\* list_api_keys (routers/api_keys.py:15-33)
list_api_keys(w) ==
    /\ apc[w] = "body"
    /\ LET user == aauth[w].user
       IN RespondRows(w, "list_api_keys", 200, user, {KeyRow(k) : k \in KeysOf(user)})
    /\ ReadOnly

\* list_projects (routers/projects.py:25-47)
list_projects(w) ==
    /\ apc[w] = "body"
    /\ LET user == aauth[w].user
       IN RespondRows(w, "list_projects", 200, user, {ProjectRow(p) : p \in ProjectsOf(user)})
    /\ ReadOnly

\* create_project (routers/projects.py:50-110).  create_project_topic may
\* fail; the topic row gets the same kafka_topic_name either way.
create_project(w) ==
    /\ apc[w] = "body"
    /\ LET user == aauth[w].user
           p == nproj + 1
       IN IF aauth[w].project # 0
          THEN Respond(w, "create_project", 403, 0) /\ UNCHANGED tenantVars
          ELSE /\ p \in ProjectIds
               /\ projects' = [projects EXCEPT ![p] =
                                 [user_id |-> user, name |-> "generated", is_default |-> FALSE]]
               /\ topics' = [topics EXCEPT ![p] =
                               [project_id |-> p, name |-> LogicalName(p),
                                kafka_topic_name |-> project_events(p)]]
               /\ nproj' = p
               /\ \E created \in BOOLEAN :
                     kafkaTopics' = IF created THEN kafkaTopics \cup {project_events(p)}
                                    ELSE kafkaTopics
               /\ RespondRows(w, "create_project", 200, user, {ProjectRow(p)})
               /\ UNCHANGED <<nkeys, deleteLog>>
    /\ UNCHANGED <<notAuth, users, passwordSet, apiKeys, minted, refusedKinds, nauth, abody>>

\* update_project (routers/projects.py:113-148)
update_project(w) ==
    /\ apc[w] = "body"
    /\ \E project_id \in ProjectIds :
          IF ~OwnProject(aauth[w].user, project_id)
          THEN /\ RespondTo(w, "update_project", 404, 0, {}, ProjectRow(project_id))
               /\ projects' = projects
          ELSE /\ projects' = [projects EXCEPT ![project_id].name = "renamed"]
               /\ RespondTo(w, "update_project", 200, aauth[w].user,
                            {ProjectRow(project_id)}, ProjectRow(project_id))
    /\ UNCHANGED <<notAuth, users, passwordSet, apiKeys, minted, refusedKinds, nauth, topics,
                   kafkaTopics, deleteLog, nkeys, nproj, abody>>

\* An ORM in which deleting a project leaves its API keys.
CascadeKeys_None(keys, project_id) == keys

\* models.py:34: Project.api_keys, cascade="all, delete-orphan"
CascadeKeys(keys, project_id) ==
    [k \in Secrets |->
        IF keys[k] # NoRow /\ keys[k].project_id = project_id THEN NoRow ELSE keys[k]]

\* models.py:33: Project.topics, cascade="all, delete-orphan"
CascadeTopics(rows, project_id) ==
    [t \in ProjectIds |->
        IF rows[t] # NoRow /\ rows[t].project_id = project_id THEN NoRow ELSE rows[t]]

\* An ORM in which deleting a project leaves its usage counters.
CascadeCounters_None(rows, project_id) == rows

\* models.py:35: Project.usage_counters, cascade="all, delete-orphan"
CascadeCounters(rows, project_id) ==
    [k \in DOMAIN rows |-> IF k[1] = project_id THEN NoRow ELSE rows[k]]

\* delete_project (routers/projects.py:151-189).  delete_topic may fail, which
\* is logged and ignored; the ORM cascade (models.py:33-35) deletes the
\* project's topics, api_keys and usage_counters rows with it.
delete_project(w) ==
    /\ apc[w] = "body"
    /\ \E project_id \in ProjectIds :
          IF ~OwnProject(aauth[w].user, project_id)
          THEN /\ RespondTo(w, "delete_project", 404, 0, {}, ProjectRow(project_id))
               /\ UNCHANGED <<projects, topics, kafkaTopics, apiKeys, usageRows>>
          ELSE /\ \E deleted \in BOOLEAN :
                     kafkaTopics' =
                        IF deleted /\ topics[project_id] # NoRow
                        THEN kafkaTopics \ {topics[project_id].kafka_topic_name}
                        ELSE kafkaTopics
               /\ projects' = [projects EXCEPT ![project_id] = NoRow]
               /\ topics' = CascadeTopics(topics, project_id)
               /\ apiKeys' = CascadeKeys(apiKeys, project_id)
               /\ usageRows' = CascadeCounters(usageRows, project_id)
               /\ RespondTo(w, "delete_project", 200, 0, {}, ProjectRow(project_id))
    /\ UNCHANGED <<registryVars, resolverVars, publishVars, retryVars, today, globalRows, gLock, uLock,
                   pc, req, loc, resp, nreq, users, passwordSet, minted, refusedKinds, nauth,
                   deleteLog, nkeys, nproj, abody>>

\* list_topics (routers/topics.py:28-71)
list_topics(w) ==
    /\ apc[w] = "body"
    /\ LET user == aauth[w].user
           project_id == aauth[w].project
       IN IF project_id = 0
          THEN RespondRows(w, "list_topics", 200, user,
                           {TopicRow(t) : t \in TopicsIn(ProjectsOf(user))})
          ELSE IF ~OwnProject(user, project_id)
          THEN Respond(w, "list_topics", 404, 0)
          ELSE RespondRows(w, "list_topics", 200, user,
                           {TopicRow(t) : t \in TopicsIn({project_id})})
    /\ ReadOnly

\* The project publish and stream work in (routers/topics.py:84-108 and
\* 235-259): the key's project if it is the user's, the user's default
\* project under a token; 0 when the query finds none.
ResolveProject(user, project_id) ==
    IF project_id = 0
    THEN LET defaults == {p \in ProjectsOf(user) : projects[p].is_default}
         IN IF defaults = {} THEN 0 ELSE CHOOSE p \in defaults : TRUE
    ELSE IF OwnProject(user, project_id) THEN project_id ELSE 0

\* routers/topics.py:110-121: the topic of the project by logical name, or
\* else by kafka_topic_name; 0 when there is none.
ResolveTopic(project_id, topic_name) ==
    LET byName == {t \in TopicsIn({project_id}) : topics[t].name = topic_name}
        byKafka == {t \in TopicsIn({project_id}) : topics[t].kafka_topic_name = topic_name}
    IN IF byName # {} THEN CHOOSE t \in byName : TRUE
       ELSE IF byKafka # {} THEN CHOOSE t \in byKafka : TRUE
       ELSE 0

\* The {topic_name} of a request path: a name some topics row has or had.
PathNames ==
    {LogicalName(p) : p \in ProjectIds} \cup {user_events(u) : u \in UserIds}
    \cup {project_events(p) : p \in ProjectIds}

\* What publish answers once it has its topic: accepted, a message too
\* large, quota exceeded, or a failure of the store or the broker.
PublishOutcomes == {200, 413, 429, 500}

\* publish (routers/topics.py:74-221), as far as the tables of this section
\* go: project and topic are resolved (lines 84-127), and what follows works
\* on that topic's kafka_topic_name and that project's counters.
publish(w) ==
    /\ apc[w] = "body"
    /\ \E topic_name \in PathNames :
          LET user == aauth[w].user
              project_id == ResolveProject(user, aauth[w].project)
              topic == ResolveTopic(project_id, topic_name)
          IN IF project_id = 0 \/ topic = 0
             THEN RespondTo(w, "publish", 404, 0, {}, TopicName(topic_name))
             ELSE \E st \in PublishOutcomes :
                     RespondTo(w, "publish", st, user, {TopicRow(topic)},
                               TopicName(topic_name))
    /\ ReadOnly

\* stream (routers/topics.py:224-546): line 234 reads the local `user` before
\* line 235 assigns it; the UnboundLocalError is answered 500 by the global
\* handler before any table is read.
stream(w) ==
    /\ apc[w] = "body"
    /\ \E topic_name \in PathNames :
          RespondTo(w, "stream", 500, 0, {}, TopicName(topic_name))
    /\ ReadOnly

\* get_usage (routers/usage.py:26-125): the project whose name the response
\* carries.
get_usage(w) ==
    /\ apc[w] = "body"
    /\ \E project_id \in ProjectIds \cup {0} :
          LET user == aauth[w].user
              scope == aauth[w].project
          IN IF scope # 0
             THEN RespondRows(w, "get_usage", 200, user,
                              IF projects[scope] # NoRow THEN {ProjectRow(scope)} ELSE {})
             ELSE IF project_id # 0
             THEN IF ~OwnProject(user, project_id)
                  THEN RespondTo(w, "get_usage", 404, 0, {}, ProjectRow(project_id))
                  ELSE RespondTo(w, "get_usage", 200, user, {ProjectRow(project_id)},
                                 ProjectRow(project_id))
             ELSE Respond(w, "get_usage", 200, user)
    /\ ReadOnly

\* get_usage_with_projects (routers/usage.py:128-207)
get_usage_with_projects(w) ==
    /\ apc[w] = "body"
    /\ LET user == aauth[w].user
       IN IF aauth[w].project # 0
          THEN Respond(w, "get_usage_with_projects", 403, 0)
          ELSE RespondRows(w, "get_usage_with_projects", 200, user,
                           {ProjectRow(p) : p \in ProjectsOf(user)})
    /\ ReadOnly

TenantNext ==
    \/ \E w \in Workers : TenantRequest(w)
    \/ \E w \in Workers : JwtAuth(w)
    \/ \E w \in Workers : KeyLookup(w)
    \/ \E w \in Workers : KeyRecheck(w)
    \/ \E w \in Workers : KeyFallback(w)
    \/ \E w \in Workers : delete_me(w)
    \/ \E w \in Workers : list_api_keys(w)
    \/ \E w \in Workers : create_api_key(w)
    \/ \E w \in Workers : delete_api_key(w)
    \/ \E w \in Workers : list_projects(w)
    \/ \E w \in Workers : create_project(w)
    \/ \E w \in Workers : update_project(w)
    \/ \E w \in Workers : delete_project(w)
    \/ \E w \in Workers : list_topics(w)
    \/ \E w \in Workers : publish(w)
    \/ \E w \in Workers : stream(w)
    \/ \E w \in Workers : get_usage(w)
    \/ \E w \in Workers : get_usage_with_projects(w)

TenantSpec == TenantInit /\ [][TenantNext]_vars

(***************************************************************************)
(* dependencies.py: get_current_user called on the results of its two      *)
(* dependencies, whatever they are.                                        *)
(***************************************************************************)
JwtResults == {None} \cup {<<u, 0>> : u \in UserIds}
ApiKeyResults == {None} \cup {<<u, p>> : u \in UserIds, p \in ProjectIds}

ResolverCall ==
    /\ ~dargs.called
    /\ \E j \in JwtResults, k \in ApiKeyResults :
          dargs' = [jwt_result |-> j, api_key_result |-> k, called |-> TRUE]
    /\ UNCHANGED <<notResolver, dret>>

ResolverReturn ==
    /\ dargs.called
    /\ dret' = get_current_user(dargs.jwt_result, dargs.api_key_result)
    /\ dargs' = [dargs EXCEPT !.called = FALSE]
    /\ UNCHANGED notResolver

ResolverNext == ResolverCall \/ ResolverReturn

ResolverSpec == Init /\ [][ResolverNext]_vars

(***************************************************************************)
(* PublishSpec: publish (routers/topics.py:129-221) once project and topic *)
(* are resolved, with publish_messages (kafka_service.py:136-159), the     *)
(* producer and the broker.  check_quota and increment_usage are taken     *)
(* here as one step each; their own steps and locks are those of Spec.     *)
(***************************************************************************)
\* A message value {"k": s}, s made of `ascii` ASCII characters and
\* `escaped` characters outside ASCII (of the Basic Multilingual Plane):
\* one of 10 bytes, one of 65536 and one of 65537, which is 32 KB or less
\* in the UTF-8 body of the client.
Values ==
    { [ascii |-> 1, escaped |-> 0],
      [ascii |-> 65527, escaped |-> 0],
      [ascii |-> 2, escaped |-> 10921] }

\* len(json.dumps(value).encode('utf-8')), topics.py:133: json.dumps writes
\* {"k": "..."} with ", " and ": " as separators, 9 bytes around the
\* string, and with ensure_ascii a character outside ASCII as \uXXXX.
json_dumps_len(value) == 9 + value.ascii + 6 * value.escaped

\* Variant: the limit itself is refused.
TooLarge_Inclusive(value) == json_dumps_len(value) >= MAX_PAYLOAD_SIZE

\* topics.py:134
TooLarge(value) == json_dumps_len(value) > MAX_PAYLOAD_SIZE

\* The loop of topics.py:132-149 from index i on: the index it raises 413
\* for, -1 when it runs to the end.
RECURSIVE FirstTooLarge(_, _)
FirstTooLarge(messages, i) ==
    IF i = Len(messages) THEN -1
    ELSE IF TooLarge(messages[i + 1]) THEN i
    ELSE FirstTooLarge(messages, i + 1)

\* topics.py:152-153: message_count and bytes_count.
RECURSIVE SumBytes(_, _)
SumBytes(messages, i) ==
    IF i = Len(messages) THEN 0
    ELSE json_dumps_len(messages[i + 1]) + SumBytes(messages, i + 1)

Counted(w) ==
    [dir |-> "in", project |-> preq[w].project,
     n |-> Len(pmsgs[w]), b |-> SumBytes(pmsgs[w], 0)]

MessageLists == UNION {[1..n -> Values] : n \in 0..MaxMessages}

\* The usage row of the request's project today, and the global row; an
\* absent row counts as zero (quota_service.py:40-52, 77-97).
PubUsageKey(w) == <<preq[w].project, today>>
PubUsage(w) == IF usageRows[PubUsageKey(w)] = NoRow THEN ZeroUsage ELSE usageRows[PubUsageKey(w)]
PubGlobal == IF globalRows[today] = NoRow THEN ZeroGlobal ELSE globalRows[today]

\* Project 1 is two messages short of its daily limit.
PublishSeeded ==
    /\ today = 1
    /\ globalRows = [d \in Days |-> IF d = 1 THEN SeededGlobal ELSE NoRow]
    /\ usageRows = [k \in Projects \X Days |->
                      IF k = <<1, 1>>
                      THEN [ZeroUsage EXCEPT !.messages_in = FREE_TIER_MESSAGES_LIMIT - 2]
                      ELSE NoRow]
    /\ gLock = [d \in Days |-> Free]
    /\ uLock = [k \in Projects \X Days |-> Free]
    /\ pc = [w \in Workers |-> "idle"]
    /\ req = [w \in Workers |-> NoReq]
    /\ loc = [w \in Workers |-> NoLoc]
    /\ resp = [w \in Workers |-> NoResp]
    /\ nreq = 0

PublishSpecInit ==
    PublishSeeded /\ RegistryInit /\ AuthInit /\ ResolverInit /\ PublishInit /\ RetryInit

\* The handler raises or returns: the response is sent.
PubRespond(w, st, index) ==
    /\ ppc' = [ppc EXCEPT ![w] = "idle"]
    /\ presp' = [presp EXCEPT ![w] = [status |-> st, index |-> index]]

\* A publish request arrives and is authenticated; project and topic are
\* resolved (topics.py:84-130).
PublishArrives(w) ==
    /\ ppc[w] = "idle"
    /\ npub < MaxPublishRequests
    /\ \E p \in Projects, messages \in MessageLists :
          /\ preq' = [preq EXCEPT ![w] = [id |-> npub + 1, project |-> p]]
          /\ pmsgs' = [pmsgs EXCEPT ![w] = messages]
          /\ ptopic' = [ptopic EXCEPT ![npub + 1] = p]
    /\ ppc' = [ppc EXCEPT ![w] = "validate"]
    /\ pidx' = [pidx EXCEPT ![w] = 0]
    /\ presp' = [presp EXCEPT ![w] = NoPublishResp]
    /\ npub' = npub + 1
    /\ UNCHANGED <<notPublish, globalRows, usageRows, futures, inflight, brokerLog>>

\* topics.py:132-149: the sizes are validated, in index order.
publish_validate(w) ==
    /\ ppc[w] = "validate"
    /\ LET i == FirstTooLarge(pmsgs[w], 0)
       IN IF i # -1
          THEN PubRespond(w, 413, i)
          ELSE /\ ppc' = [ppc EXCEPT ![w] = "check_quota"]
               /\ presp' = presp
    /\ UNCHANGED <<notPublish, globalRows, usageRows, preq, pmsgs, pidx,
                   futures, inflight, brokerLog, npub, ptopic>>

\* topics.py:151-177: check_quota raises 429 over a limit, or 500 when a
\* counter row is locked by another request; the rows it may have inserted
\* are rolled back with its transaction.
publish_check_quota(w) ==
    /\ ppc[w] = "check_quota"
    /\ \/ IF GlobalVerdict(PubGlobal, Counted(w)) # "ok" \/ UserVerdict(PubUsage(w), Counted(w)) # "ok"
          THEN PubRespond(w, 429, -1)
          ELSE /\ ppc' = [ppc EXCEPT ![w] = IF Len(pmsgs[w]) = 0 THEN "increment" ELSE "send"]
               /\ presp' = presp
       \/ PubRespond(w, 500, -1)
    /\ UNCHANGED <<notPublish, globalRows, usageRows, preq, pmsgs, pidx,
                   futures, inflight, brokerLog, npub, ptopic>>

\* kafka_service.py:143: producer.send hands the message to the producer and
\* returns its future, or raises (no metadata, buffer full); the exception
\* is raised again at line 155 and publish answers 500 (topics.py:195-198).
producer_send(w) ==
    /\ ppc[w] = "send"
    /\ LET m == <<preq[w].id, pidx[w]>>
       IN \/ /\ futures' = [futures EXCEPT ![m] = "pending"]
             /\ inflight' = inflight \cup {m}
             /\ ppc' = [ppc EXCEPT ![w] = "future_get"]
             /\ presp' = presp
          \/ /\ futures' = [futures EXCEPT ![m] = "failed"]
             /\ inflight' = inflight
             /\ PubRespond(w, 500, -1)
    /\ UNCHANGED <<notPublish, globalRows, usageRows, preq, pmsgs, pidx, brokerLog, npub, ptopic>>

\* The producer's sender thread delivers a message: the broker appends it
\* to the topic's one partition (kafka_service.py:68) and acknowledges it.
broker_append ==
    /\ \E m \in inflight :
          /\ inflight' = inflight \ {m}
          /\ brokerLog' = Append(brokerLog, m)
          /\ futures' = [futures EXCEPT ![m] = IF @ = "pending" THEN "acked" ELSE @]
    /\ UNCHANGED <<notPublish, globalRows, usageRows, ppc, preq, pmsgs, pidx, presp, npub, ptopic>>

\* The broker refuses a message, or the connection is lost with it.
broker_error ==
    /\ \E m \in inflight :
          /\ inflight' = inflight \ {m}
          /\ futures' = [futures EXCEPT ![m] = IF @ = "pending" THEN "failed" ELSE @]
    /\ UNCHANGED <<notPublish, globalRows, usageRows, ppc, preq, pmsgs, pidx, presp,
                   brokerLog, npub, ptopic>>

\* Variant: a send that failed is passed over.
Returned_IgnoresFailure(future) == future \in {"acked", "failed"}

\* Variant: the future is not waited for.
Returned_NoWait(future) == future \in {"pending", "acked"}

\* future.get(timeout=10) returns once the message is acknowledged.
Returned(future) == future = "acked"

\* kafka_service.py:145 returning: the loop goes to the next message, or to
\* producer.flush() and back to publish after the last one.
future_get(w) ==
    /\ ppc[w] = "future_get"
    /\ Returned(futures[<<preq[w].id, pidx[w]>>])
    /\ pidx' = [pidx EXCEPT ![w] = @ + 1]
    /\ ppc' = [ppc EXCEPT ![w] = IF pidx[w] + 1 = Len(pmsgs[w]) THEN "increment" ELSE "send"]
    /\ UNCHANGED <<notPublish, globalRows, usageRows, preq, pmsgs, presp,
                   futures, inflight, brokerLog, npub, ptopic>>

\* kafka_service.py:145 raising: the send failed, or 10 seconds went by
\* without an acknowledgement, the message still with the producer.  The
\* exception is raised again at line 155: no further message is sent.
future_get_raises(w) ==
    /\ ppc[w] = "future_get"
    /\ LET m == <<preq[w].id, pidx[w]>>
       IN /\ futures[m] \in {"failed", "pending"}
          /\ futures' = [futures EXCEPT ![m] = "failed"]
    /\ PubRespond(w, 500, -1)
    /\ UNCHANGED <<notPublish, globalRows, usageRows, preq, pmsgs, pidx,
                   inflight, brokerLog, npub, ptopic>>

\* topics.py:200-221: increment_usage commits the counters and publish
\* answers 200; or it raises (a row locked by another request) and the
\* answer is 500.
publish_increment_usage(w) ==
    /\ ppc[w] = "increment"
    /\ \/ /\ globalRows' = [globalRows EXCEPT ![today] = AddGlobal(PubGlobal, Counted(w))]
          /\ usageRows' = [usageRows EXCEPT ![PubUsageKey(w)] = AddUsage(PubUsage(w), Counted(w))]
          /\ PubRespond(w, 200, -1)
       \/ /\ UNCHANGED <<globalRows, usageRows>>
          /\ PubRespond(w, 500, -1)
    /\ UNCHANGED <<notPublish, preq, pmsgs, pidx, futures, inflight, brokerLog, npub, ptopic>>

PublishNext ==
    \/ \E w \in Workers : PublishArrives(w)
    \/ \E w \in Workers : publish_validate(w)
    \/ \E w \in Workers : publish_check_quota(w)
    \/ \E w \in Workers : producer_send(w)
    \/ broker_append
    \/ broker_error
    \/ \E w \in Workers : future_get(w)
    \/ \E w \in Workers : future_get_raises(w)
    \/ \E w \in Workers : publish_increment_usage(w)

PublishSpec == PublishSpecInit /\ [][PublishNext]_vars

(***************************************************************************)
(* check_and_increment_usage (quota_service.py:205-399), called by         *)
(* concurrent workers, each with a session of its own.  No router calls    *)
(* it.  Delays are in milliseconds.                                        *)
(***************************************************************************)
max_retries == 3
initial_retry_delay == 10

notRetry == <<registryVars, authVars, resolverVars, publishVars, pc, req, loc, resp, nreq>>

CKey(w) == <<creq[w].project, creq[w].today>>

\* The first statement of the try block, lines 242 and 281.
FirstStatement(r) == IF r.dir = "in" THEN "ci_gsel" ELSE "ci_usel"

\* A handler that takes every exception for a lock conflict.
is_lock_error_Any(e) == TRUE

\* lines 360-375: pgcode 55P03 or the words of LockNotAvailable's message.
is_lock_error(e) == e = "LockNotAvailable"

\* A rollback after which the rows the transaction wrote are in the table.
rollback_KeepsWrites(rows, key, image) ==
    IF image = NoRow THEN rows ELSE [rows EXCEPT ![key] = image]

\* db.rollback() (lines 262, 270, 313, 319, 330, 336, 354, 379): the table is
\* left as committed; image is the row the transaction wrote under key.
rollback(rows, key, image) == rows

\* db.commit() (line 347)
commit(rows, key, image) ==
    IF image = NoRow THEN rows ELSE [rows EXCEPT ![key] = image]

\* line 235 and the first pass of `while retry_count <= max_retries`.
CI_Call(w) ==
    /\ cpc[w] \in {"idle", "done"}
    /\ ncic < MaxRetryCalls
    /\ \E p \in Projects, dir \in {"in", "out"} :
         \E bt \in (IF dir = "in" THEN Batches ELSE OutBatches) :
            LET r == [dir |-> dir, project |-> p, n |-> bt.n, b |-> bt.b, today |-> today]
            IN /\ creq' = [creq EXCEPT ![w] = r]
               /\ cpc' = [cpc EXCEPT ![w] = FirstStatement(r)]
    /\ ctx' = [ctx EXCEPT ![w] = [NoTxn EXCEPT !.retry_delay = initial_retry_delay]]
    /\ cresp' = [cresp EXCEPT ![w] = [NoCallResp EXCEPT !.attempts = 1]]
    /\ ncic' = ncic + 1
    /\ UNCHANGED <<notRetry, today, globalRows, usageRows, gLock, uLock>>

\* An exception leaves the function: the transaction has been rolled back
\* (by the rollback before the raise, or by lines 353-356 and 378-381).
Raises(w, st, e) ==
    /\ cpc' = [cpc EXCEPT ![w] = "done"]
    /\ cresp' = [cresp EXCEPT ![w].status = st, ![w].errors = Append(@, e)]
    /\ ctx' = [ctx EXCEPT ![w].g = NoRow, ![w].u = NoRow]
    /\ globalRows' = rollback(globalRows, creq[w].today, ctx[w].g)
    /\ usageRows' = rollback(usageRows, CKey(w), ctx[w].u)
    /\ gLock' = ReleasedG(w)
    /\ uLock' = ReleasedU(w)
    /\ UNCHANGED <<notRetry, today, creq, ncic>>

\* lines 358-399: an exception that is no HTTPException is caught; the
\* transaction is rolled back, and a lock conflict with retries left goes to
\* sleep (lines 384-388).
Caught(w, e) ==
    IF is_lock_error(e) /\ ctx[w].retry_count < max_retries
    THEN /\ cpc' = [cpc EXCEPT ![w] = "ci_sleep"]
         /\ cresp' = [cresp EXCEPT ![w].errors = Append(@, e),
                                   ![w].sleeps = Append(@, ctx[w].retry_delay)]
         /\ ctx' = [ctx EXCEPT ![w].retry_count = @ + 1, ![w].g = NoRow, ![w].u = NoRow]
         /\ globalRows' = rollback(globalRows, creq[w].today, ctx[w].g)
         /\ usageRows' = rollback(usageRows, CKey(w), ctx[w].u)
         /\ gLock' = ReleasedG(w)
         /\ uLock' = ReleasedU(w)
         /\ UNCHANGED <<notRetry, today, creq, ncic>>
    ELSE Raises(w, IF is_lock_error(e) THEN 503 ELSE 500, e)

\* lines 386-388: the sleep is over, the delay doubles, the loop goes round.
CI_Wake(w) ==
    /\ cpc[w] = "ci_sleep"
    /\ cpc' = [cpc EXCEPT ![w] = FirstStatement(creq[w])]
    /\ ctx' = [ctx EXCEPT ![w].retry_delay = @ * 2]
    /\ cresp' = [cresp EXCEPT ![w].attempts = @ + 1]
    /\ UNCHANGED <<notRetry, today, globalRows, usageRows, gLock, uLock, creq, ncic>>

\* lines 260-278: the global row is locked (or freshly inserted).
GlobalChecked(w, g) ==
    IF GlobalVerdict(g, creq[w]) # "ok"
    THEN Raises(w, 429, GlobalVerdict(g, creq[w]))
    ELSE /\ gLock' = [gLock EXCEPT ![creq[w].today] = w]
         /\ ctx' = [ctx EXCEPT ![w].g = AddGlobal(g, creq[w])]
         /\ cpc' = [cpc EXCEPT ![w] = "ci_usel"]
         /\ UNCHANGED <<notRetry, today, globalRows, usageRows, uLock, creq, cresp, ncic>>

\* lines 243-247
CI_GlobalSelect(w) ==
    /\ cpc[w] = "ci_gsel"
    /\ LET d == creq[w].today
       IN IF globalRows[d] = NoRow
          THEN /\ cpc' = [cpc EXCEPT ![w] = "ci_gins"]
               /\ UNCHANGED <<notRetry, today, globalRows, usageRows, gLock, uLock,
                              creq, ctx, cresp, ncic>>
          ELSE IF gLock[d] \notin {Free, w}
               THEN Caught(w, "LockNotAvailable")
               ELSE GlobalChecked(w, globalRows[d])

\* lines 248-258: INSERT (flush), which waits for an open transaction that
\* inserted the same date, and the re-query of the own row.
CI_GlobalInsert(w) ==
    /\ cpc[w] = "ci_gins"
    /\ LET d == creq[w].today
       IN /\ ~(globalRows[d] = NoRow /\ gLock[d] \notin {Free, w})
          /\ IF globalRows[d] # NoRow
             THEN Caught(w, "IntegrityError")
             ELSE GlobalChecked(w, ZeroGlobal)

\* lines 310-344: the project's row is locked (or freshly inserted).
UsageChecked(w, u) ==
    IF UserVerdict(u, creq[w]) # "ok"
    THEN Raises(w, 429, UserVerdict(u, creq[w]))
    ELSE /\ uLock' = [uLock EXCEPT ![CKey(w)] = w]
         /\ ctx' = [ctx EXCEPT ![w].u = AddUsage(u, creq[w])]
         /\ cpc' = [cpc EXCEPT ![w] = "ci_commit"]
         /\ UNCHANGED <<notRetry, today, globalRows, usageRows, gLock, creq, cresp, ncic>>

\* lines 281-289
CI_UsageSelect(w) ==
    /\ cpc[w] = "ci_usel"
    /\ IF usageRows[CKey(w)] = NoRow
       THEN /\ cpc' = [cpc EXCEPT ![w] = "ci_uins"]
            /\ UNCHANGED <<notRetry, today, globalRows, usageRows, gLock, uLock,
                           creq, ctx, cresp, ncic>>
       ELSE IF uLock[CKey(w)] \notin {Free, w}
            THEN Caught(w, "LockNotAvailable")
            ELSE UsageChecked(w, usageRows[CKey(w)])

\* lines 290-308
CI_UsageInsert(w) ==
    /\ cpc[w] = "ci_uins"
    /\ ~(usageRows[CKey(w)] = NoRow /\ uLock[CKey(w)] \notin {Free, w})
    /\ IF usageRows[CKey(w)] # NoRow
       THEN Caught(w, "IntegrityError")
       ELSE UsageChecked(w, ZeroUsage)

\* lines 346-348
CI_Commit(w) ==
    /\ cpc[w] = "ci_commit"
    /\ globalRows' = commit(globalRows, creq[w].today, ctx[w].g)
    /\ usageRows' = commit(usageRows, CKey(w), ctx[w].u)
    /\ gLock' = ReleasedG(w)
    /\ uLock' = ReleasedU(w)
    /\ cpc' = [cpc EXCEPT ![w] = "done"]
    /\ cresp' = [cresp EXCEPT ![w].status = 200]
    /\ ctx' = [ctx EXCEPT ![w].g = NoRow, ![w].u = NoRow]
    /\ UNCHANGED <<notRetry, today, creq, ncic>>

RetryNext ==
    \/ \E w \in Workers : CI_Call(w)
    \/ \E w \in Workers : CI_GlobalSelect(w)
    \/ \E w \in Workers : CI_GlobalInsert(w)
    \/ \E w \in Workers : CI_UsageSelect(w)
    \/ \E w \in Workers : CI_UsageInsert(w)
    \/ \E w \in Workers : CI_Commit(w)
    \/ \E w \in Workers : CI_Wake(w)
    \/ Midnight

RetrySpec == Init /\ [][RetryNext]_vars

(***************************************************************************)
(* The counters with projects deleted meanwhile: the publish path of       *)
(* quota_service.py and the deletion of routers/projects.py:185-187.       *)
(***************************************************************************)
\* publish serves a project that exists (topics.py:84-108 answer 404
\* otherwise, before the quota is looked at).
LedgerStart(w) ==
    /\ nreq < MaxLedgerRequests
    /\ Start(w)
    /\ projects[req'[w].project] # NoRow

\* usage_counters.project_id references projects.id (models.py:71): the
\* INSERT of check_quota for a project deleted since the request resolved it
\* raises IntegrityError, and the request ends 500.
LedgerUsageInsert(w) ==
    /\ pc[w] = "cq_uins"
    /\ IF projects[req[w].project] = NoRow
       THEN Abort(w, 500, "IntegrityError", loc[w], 0)
       ELSE CQ_UsageInsert(w)

\* delete_project as served to the project's owner (projects.py:161-187):
\* db.delete(project) and the commit, with the cascade of models.py:33-35.
\* The DELETE of a usage row waits for the transaction that holds its lock,
\* and the DELETE of the project for the one that inserted a row referring
\* to it.
ProjectDeleted(project_id) ==
    /\ projects[project_id] # NoRow
    /\ \A d \in Days : uLock[<<project_id, d>>] = Free
    /\ \E deleted \in BOOLEAN :
          kafkaTopics' =
             IF deleted /\ topics[project_id] # NoRow
             THEN kafkaTopics \ {topics[project_id].kafka_topic_name}
             ELSE kafkaTopics
    /\ projects' = [projects EXCEPT ![project_id] = NoRow]
    /\ topics' = CascadeTopics(topics, project_id)
    /\ apiKeys' = CascadeKeys(apiKeys, project_id)
    /\ usageRows' = CascadeCounters(usageRows, project_id)
    /\ UNCHANGED <<registryVars, resolverVars, publishVars, retryVars, today, globalRows,
                   gLock, uLock, pc, req, loc, resp, nreq, users, passwordSet, minted,
                   apc, areq, aauth, aresp, refusedKinds, nauth, deleteLog, nkeys, nproj,
                   abody>>

LedgerNext ==
    \/ \E w \in Workers : LedgerStart(w)
    \/ \E w \in Workers : CQ_GlobalSelect(w)
    \/ \E w \in Workers : CQ_GlobalInsert(w)
    \/ \E w \in Workers : CQ_GlobalReselect(w)
    \/ \E w \in Workers : CQ_UsageSelect(w)
    \/ \E w \in Workers : LedgerUsageInsert(w)
    \/ \E w \in Workers : Produce(w)
    \/ \E w \in Workers : IU_GlobalSelect(w)
    \/ \E w \in Workers : IU_GlobalInsert(w)
    \/ \E w \in Workers : IU_UsageSelect(w)
    \/ \E w \in Workers : IU_UsageInsert(w)
    \/ \E w \in Workers : IU_Commit(w)
    \/ Midnight
    \/ \E project_id \in Projects : ProjectDeleted(project_id)

LedgerSpec == TenantInit /\ [][LedgerNext]_vars

(***************************************************************************)
(* Claims about the quota engine and the publish path (checked under Spec) *)
(***************************************************************************)
\* The counters as a reader sees them: an absent row counts as zero.
UsageValue(k) == IF usageRows[k] = NoRow THEN ZeroUsage ELSE usageRows[k]
GlobalValue(d) == IF globalRows[d] = NoRow THEN ZeroGlobal ELSE globalRows[d]
CounterValues ==
    <<[k \in Projects \X Days |-> UsageValue(k)], [d \in Days |-> GlobalValue(d)]>>

\* The inbound half of the counters, which is what a publish debits.
InboundValues ==
    <<[k \in Projects \X Days |-> <<UsageValue(k).messages_in, UsageValue(k).bytes_in>>],
      [d \in Days |-> GlobalValue(d)]>>

Finishes(w) == pc[w] # "done" /\ pc'[w] = "done"

C2_IncrementAppliedToCheckedValue ==
    [][\A w \in Workers :
          (pc[w] = "iu_commit" /\ pc'[w] = "done") =>
             /\ UserVerdict(UsageValue(IKey(w)), req[w]) = "ok"
             /\ req[w].dir = "in" => GlobalVerdict(GlobalValue(loc[w].iday), req[w]) = "ok"]_vars

\* C6: when producing to the broker fails, publish answers 500 and the
\* per-project and global inbound counters have already been increased by the
\* request's message count and byte count.
C6_DebitedBeforeBrokerFailure ==
    [][\A w \in Workers :
          (pc[w] = "produce" /\ pc'[w] = "done" /\ resp'[w].error = "kafka_error") =>
             /\ resp'[w].status = 500
             /\ usageRows'[UKey(w)] # NoRow
             /\ usageRows'[UKey(w)].messages_in = loc[w].seenU.messages_in + req[w].n
             /\ usageRows'[UKey(w)].bytes_in = loc[w].seenU.bytes_in + req[w].b
             /\ globalRows'[loc[w].qday].messages_in = loc[w].seenG.messages_in + req[w].n
             /\ globalRows'[loc[w].qday].bytes_in = loc[w].seenG.bytes_in + req[w].b]_vars

\* The per-project counter the publish read leaves no room for its batch.
SeenUserOver(l, r) ==
    /\ l.seenU # NoRow
    /\ \/ l.seenU.messages_in + r.n > FREE_TIER_MESSAGES_LIMIT
       \/ l.seenU.bytes_in + r.b > FREE_TIER_BYTES_LIMIT

\* C7: a publish of n messages that finds messages_in + n > 10000 (or
\* bytes_in + b > 100 MiB) on its per-project counter is rejected with 429,
\* has produced nothing to the broker, and no counter, per-project or global,
\* changes because of it: inbound counter values change only in the commit of
\* a publish whose check found room.
C7_OverQuotaPublishRejected ==
    [][/\ \A w \in Workers :
             (req[w].dir = "in" /\ Finishes(w) /\ SeenUserOver(loc'[w], req[w])) =>
                /\ resp'[w].status = 429
                /\ resp'[w].error \in {"user_messages", "user_bytes"}
                /\ resp'[w].acked = 0
                /\ CounterValues' = CounterValues
       /\ InboundValues' # InboundValues =>
             \E w \in Workers :
                /\ pc[w] = "iu_commit" /\ pc'[w] = "done" /\ resp'[w].status = 200
                /\ req[w].dir = "in"
                /\ ~SeenUserOver(loc[w], req[w])]_vars

C7_Witness ==
    \E w \in Workers :
       /\ pc[w] = "done" /\ req[w].dir = "in" /\ resp[w].status = 429
       /\ resp[w].error = "user_messages" /\ resp[w].acked = 0
       /\ loc[w].seenU.messages_in + req[w].n > FREE_TIER_MESSAGES_LIMIT

\* The global counter the publish read leaves no room for its batch.
SeenGlobalOver(l, r) ==
    /\ l.seenG # NoRow
    /\ \/ l.seenG.messages_in + r.n > MAX_TOTAL_MESSAGES_IN
       \/ l.seenG.bytes_in + r.b > MAX_TOTAL_BYTES_IN

\* C8: a publish that finds today's global counter with messages_in + n >
\* 200000 or bytes_in + b > 2000000000 is rejected with 429 (cluster-wide
\* limit) whatever its project's own usage, which it does not even read, and
\* has produced and debited nothing; an outbound (direction = out) accounting
\* never reads the global counter and never takes or waits for its lock.
C8_GlobalBrake ==
    \A w \in Workers :
       /\ (pc[w] = "done" /\ req[w].dir = "in" /\ SeenGlobalOver(loc[w], req[w])) =>
             /\ resp[w].status = 429
             /\ resp[w].error \in {"global_messages", "global_bytes"}
             /\ loc[w].seenU = NoRow
             /\ resp[w].acked = 0
             /\ ~resp[w].debited
       /\ req[w].dir = "out" =>
             /\ loc[w].seenG = NoRow
             /\ \A d \in Days : gLock[d] # w
             /\ pc[w] \notin {"cq_gsel", "cq_gins", "cq_gresel", "iu_gsel", "iu_gins"}

\* A publish of a project without usage is refused by the brake, and an
\* outbound accounting of the same day went through.
C8_Witness ==
    \E w1, w2 \in Workers :
       /\ pc[w1] = "done" /\ req[w1].dir = "in" /\ resp[w1].status = 429
       /\ resp[w1].error = "global_bytes"
       /\ UsageValue(<<req[w1].project, loc[w1].qday>>) = ZeroUsage
       /\ pc[w2] = "done" /\ req[w2].dir = "out" /\ resp[w2].status = 200
       /\ loc[w2].qday = loc[w1].qday

\* C9: a publish that meets a held row lock ends with 200 (the lock came
\* free within the retries) or with 503 (it did not), never with 429 or 500.
MetHeldLock(w) == resp[w].error = "LockNotAvailable"

C9_LockedPublishRetries ==
    \A w \in Workers :
       (pc[w] = "done" /\ req[w].dir = "in" /\ MetHeldLock(w)) => resp[w].status \in {200, 503}

(***************************************************************************)
(* Claims about the connection registry and the stream endpoint (checked   *)
(* under RegistrySpec)                                                     *)
(***************************************************************************)
RegisterReturns(w) == rpc[w] = "register" /\ rpc'[w] = "idle"

C4_ThirdRegisterRefused ==
    [][\A w \in Workers :
          (RegisterReturns(w) /\ Cardinality(Held(connections, rcall[w].user)) = 2) =>
             /\ ~rret'[w].success
             /\ rret'[w].connection_id = 0
             /\ Held(connections', rcall[w].user) = Held(connections, rcall[w].user)]_vars

Deactivated(u) == users[u] # NoRow /\ ~users[u].is_active

\* C10: soft-delete is monotonic: a user whose is_active is false stays so
\* whatever runs afterwards, and from then on no authentication of that user
\* succeeds: no login is answered 200 with that user, and neither a bearer
\* token nor an API key brings a request of that user to its handler; a
\* request that presents them is answered 401.
C10_SoftDeleteMonotonic ==
    [][/\ \A u \in UserIds : Deactivated(u) => (users'[u] # NoRow /\ ~users'[u].is_active)
       /\ \A w \in Workers :
             /\ (apc[w] = "login" /\ aresp'[w].status = 200) => ~Deactivated(aresp'[w].user)
             /\ (apc[w] # "body" /\ apc'[w] = "body") => ~Deactivated(aauth'[w].user)
             /\ (apc[w] = "jwt_auth" /\ apc'[w] # "jwt_auth"
                 /\ decode_jwt(areq[w].header.cred) # 0
                 /\ Deactivated(decode_jwt(areq[w].header.cred))) =>
                   aresp'[w].status = 401
             /\ (apc[w] \in {"key_lookup", "key_recheck", "key_fallback", "fallback_recheck"}
                 /\ apiKeys[areq[w].header.cred] # NoRow
                 /\ Deactivated(apiKeys[areq[w].header.cred].user_id)) =>
                   /\ apc'[w] # "body"
                   /\ apc'[w] = "idle" => aresp'[w].status = 401]_vars

\* After a DELETE /auth/me, the account's password, a token minted before
\* the delete and the account's API key have each been refused.
C10_Witness ==
    /\ \E u \in UserIds : Deactivated(u)
    /\ refusedKinds = {"login", "bearer", "apikey"}

(***************************************************************************)
(* Claims about the auth resolver (checked under ResolverSpec)             *)
(***************************************************************************)
\* C11: get_current_user returns the bearer identity with a null project
\* scope whenever the bearer strategy yields a tenant, even if the API-key
\* strategy also yields one; it returns the API-key (tenant, project) only
\* when the bearer strategy yields nothing, and raises 401 when both yield
\* nothing.
C11_BearerTakesPrecedence ==
    (~dargs.called /\ dret # NoResolved) =>
        /\ dargs.jwt_result # None =>
              /\ dret = [status |-> 200, result |-> dargs.jwt_result]
              /\ dret.result[2] = 0
        /\ (dargs.jwt_result = None /\ dargs.api_key_result # None) =>
              dret = [status |-> 200, result |-> dargs.api_key_result]
        /\ (dargs.jwt_result = None /\ dargs.api_key_result = None) =>
              dret = [status |-> 401, result |-> None]
        /\ (dret.status = 200 /\ dret.result[2] # 0) => dargs.jwt_result = None

\* Both strategies yielded, for different tenants, and the bearer's came back.
C11_Witness ==
    /\ ~dargs.called
    /\ dargs.jwt_result # None
    /\ dargs.api_key_result # None
    /\ dargs.jwt_result[1] # dargs.api_key_result[1]
    /\ dret = [status |-> 200, result |-> dargs.jwt_result]

(***************************************************************************)
(* Claims about API keys, projects and tenants (checked under TenantSpec)  *)
(***************************************************************************)
\* The secret of the ApiKey header a worker is resolving.
KeySecret(w) == areq[w].header.cred
KeyResolving(w) == apc[w] \in {"key_lookup", "key_recheck", "key_fallback", "fallback_recheck"}
KeyLive(s) == apiKeys[s] # NoRow /\ IsActive(apiKeys[s].user_id)
\* The request carries 'ApiKey s' for a secret s that create_api_key issued.
CarriesIssued(w) == areq[w].header.scheme = "ApiKey" /\ KeySecret(w) \in 1..nkeys

\* C12: after create_api_key returned secret s for project p of tenant t, a
\* request carrying 'ApiKey s' authenticates as (t, p) for as long as the key
\* row exists and t is active; once the key is revoked, or its project is
\* deleted, 'ApiKey s' is answered 401.  Stated of the requests that arrive
\* in the one condition or the other, step by step of the resolution.
C12_KeyAuthenticatesWhileItExists ==
    [][\A w \in Workers :
        \* the key create_api_key returns is a row of (t, p), p a project of t
        /\ (apc[w] = "body" /\ apc'[w] = "idle" /\ nkeys' = nkeys + 1) =>
              /\ aresp'[w].rows = {KeyRow(nkeys')}
              /\ apiKeys'[nkeys'].user_id = aauth[w].user
              /\ OwnProject(aauth[w].user, apiKeys'[nkeys'].project_id)
              /\ verify_password(nkeys', apiKeys'[nkeys'].secret_hash)
        \* 'ApiKey s' resolves to the key row's (t, p) and to nothing else
        /\ (KeyResolving(w) /\ apc'[w] = "body") =>
              /\ KeyLive(KeySecret(w))
              /\ aauth'[w].user = apiKeys[KeySecret(w)].user_id
              /\ aauth'[w].project = apiKeys[KeySecret(w)].project_id
        \* while the row exists and t is active the resolution goes through
        /\ (CarriesIssued(w) /\ KeyLive(KeySecret(w))) =>
              /\ (apc[w] = "key_lookup" /\ apc'[w] # apc[w]) => apc'[w] = "key_recheck"
              /\ (apc[w] = "key_recheck" /\ apc'[w] # apc[w]) => apc'[w] = "body"
        \* once the row is gone the request is answered 401
        /\ (CarriesIssued(w) /\ apiKeys[KeySecret(w)] = NoRow) =>
              /\ (apc[w] = "key_lookup" /\ apc'[w] # apc[w]) => apc'[w] = "key_fallback"
              /\ (apc[w] = "key_fallback" /\ apc'[w] # apc[w]) =>
                    apc'[w] = "idle" /\ aresp'[w].status = 401
       /\ \A s \in 1..nkeys :
           \* a row is the same row until it is deleted, and never comes back
           /\ apiKeys[s] = NoRow => apiKeys'[s] = NoRow
           /\ (apiKeys[s] # NoRow /\ apiKeys'[s] # NoRow) =>
                 apiKeys'[s] = apiKeys[s]
           \* deleting the project deletes the key
           /\ apiKeys'[s] # NoRow => projects'[apiKeys'[s].project_id] # NoRow
      ]_vars

\* The key create_api_key issued to tenant 2 for its project authenticated
\* one request, which is still being served as (2, 2); the key was then
\* revoked, and the next request that carries it is on its way to 401.
C12_Witness ==
    /\ apiKeys[1] = NoRow
    /\ \E w, v \in Workers :
          /\ apc[w] = "body" /\ CarriesIssued(w) /\ KeySecret(w) = 1
          /\ aauth[w].user = 2 /\ aauth[w].project = 2
          /\ apc[v] = "key_fallback" /\ CarriesIssued(v) /\ KeySecret(v) = 1

\* The endpoints the interface gives to bearer tokens only: /api-keys list,
\* create and revoke; /projects list, create, rename and delete;
\* /usage/projects.
BearerOnly ==
    {"list_api_keys", "create_api_key", "delete_api_key",
     "list_projects", "create_project", "update_project", "delete_project",
     "get_usage_with_projects"}

\* Worker w's handler answers in this step a request that an API key
\* authenticated.
AnswersKeyAuth(w) == apc[w] = "body" /\ aauth[w].project # 0 /\ apc'[w] = "idle"

\* C13: every bearer-only endpoint answers a request authenticated by API
\* key with 403 and changes no row.
C13_BearerOnlyEndpointsRefuseKeys ==
    [][\A w \in Workers :
         (AnswersKeyAuth(w) /\ aresp'[w].op \in BearerOnly) =>
            /\ aresp'[w].status = 403
            /\ UNCHANGED <<users, apiKeys, projects, topics, kafkaTopics>>
      ]_vars

\* The tenant a row belongs to: api_keys.user_id, projects.user_id, and for a
\* topic the user_id of its project; 0 when there is no such row.
RowOwner(r) ==
    IF r.kind = "api_key"
    THEN IF apiKeys[r.id] # NoRow THEN apiKeys[r.id].user_id ELSE 0
    ELSE IF r.kind = "project"
    THEN IF projects[r.id] # NoRow THEN projects[r.id].user_id ELSE 0
    ELSE IF r.kind = "topic" /\ topics[r.id] # NoRow
                             /\ projects[topics[r.id].project_id] # NoRow
    THEN projects[topics[r.id].project_id].user_id
    ELSE 0

\* The tenants that have a topic of that logical or broker name.
NameOwners(n) ==
    {RowOwner(TopicRow(t)) :
        t \in {x \in ProjectIds : /\ topics[x] # NoRow
                                  /\ \/ topics[x].name = n
                                     \/ topics[x].kafka_topic_name = n}}

\* The request names an API key, project or topic of another tenant than a.
Foreign(target, a) ==
    IF target.kind = "topic_name"
    THEN NameOwners(target.id) # {} /\ a \notin NameOwners(target.id)
    ELSE RowOwner(target) \notin {0, a}

\* C14: a request authenticated as tenant A is given no API key, project or
\* topic of a tenant B and changes none, nor B's account or broker topics;
\* when it names one (to read, modify, delete, publish to or stream from) it
\* is answered 404.
C14_TenantIsolation ==
    [][\A w \in Workers :
         (apc[w] = "body" /\ apc'[w] = "idle") =>
            LET a == aauth[w].user
            IN /\ \A r \in aresp'[w].rows : RowOwner(r)' = a
               /\ \A k \in Secrets :
                     RowOwner(KeyRow(k)) \notin {0, a} => apiKeys'[k] = apiKeys[k]
               /\ \A q \in ProjectIds :
                     RowOwner(ProjectRow(q)) \notin {0, a} =>
                        /\ projects'[q] = projects[q]
                        /\ topics'[q] = topics[q]
                        /\ topics[q] # NoRow =>
                              (topics[q].kafka_topic_name \in kafkaTopics
                                 <=> topics[q].kafka_topic_name \in kafkaTopics')
               /\ \A u \in UserIds \ {a} : users'[u] = users[u]
               /\ Foreign(aresp'[w].target, a) => aresp'[w].status = 404
      ]_vars

(***************************************************************************)
(* Emails, signup and login                                                *)
(***************************************************************************)

\* The users rows, active or not, other than user whose email is e after
\* normalization.
HoldersOf(e, user) ==
    {u \in UserIds \ {user} : users[u] # NoRow /\ Normalize(users[u].email) = e}

\* Worker w answers a signup or an update_me in this step.
AnswersEmailChange(w) ==
    /\ apc[w] \in {"signup", "signup_insert", "body", "update_commit"}
    /\ apc'[w] = "idle"
    /\ aresp'[w].op \in {"signup", "update_me"}

\* C15: no two users rows, active or not, ever have the same email after
\* normalization, and a signup or an email update whose email another row
\* holds when the request is answered is answered 400 and changes no row.
C15_EmailsUniqueDuplicateRejected ==
    [][/\ \A u, v \in UserIds :
             (u # v /\ users'[u] # NoRow /\ users'[v] # NoRow)
                => Normalize(users'[u].email) # Normalize(users'[v].email)
       /\ \A w \in Workers :
             (/\ AnswersEmailChange(w)
              /\ abody'[w].email # "none"
              /\ HoldersOf(Normalize(abody'[w].email),
                           IF aresp'[w].op = "signup" THEN 0 ELSE aauth[w].user) # {})
                => /\ aresp'[w].status = 400
                   /\ UNCHANGED <<users, projects, topics, kafkaTopics, apiKeys>>]_vars

\* Worker w answers a signup in this step.
AnswersSignup(w) ==
    /\ apc[w] \in {"signup", "signup_insert"}
    /\ apc'[w] = "idle"
    /\ aresp'[w].op = "signup"

\* The rows of a table that exist after the step and did not before.
NewRows(before, after, ids) == {i \in ids : before[i] = NoRow /\ after[i] # NoRow}

\* The step leaves the rows that existed as they were.
KeepsRows(before, after, ids) == \A i \in ids : before[i] # NoRow => after[i] = before[i]

\* C16: a signup answered 200 adds exactly one users row, exactly one
\* projects row, owned by it and default, and exactly one topics row, in that
\* project and with kafka_topic_name user_<id>_events, whether or not the
\* broker topic was created; a signup answered otherwise adds and changes
\* no users, projects or topics row and creates no broker topic.
C16_SignupAtomic ==
    [][\A w \in Workers :
          AnswersSignup(w) =>
             IF aresp'[w].status = 200
             THEN LET new == aresp'[w].user
                  IN /\ NewRows(users, users', UserIds) = {new}
                     /\ KeepsRows(users, users', UserIds)
                     /\ KeepsRows(projects, projects', ProjectIds)
                     /\ KeepsRows(topics, topics', ProjectIds)
                     /\ \E p \in ProjectIds :
                           /\ NewRows(projects, projects', ProjectIds) = {p}
                           /\ NewRows(topics, topics', ProjectIds) = {p}
                           /\ projects'[p].user_id = new
                           /\ projects'[p].is_default
                           /\ topics'[p].project_id = p
                           /\ topics'[p].kafka_topic_name = user_events(new)
                     /\ kafkaTopics' \in {kafkaTopics, kafkaTopics \cup {user_events(new)}}
             ELSE UNCHANGED <<users, projects, topics, kafkaTopics>>]_vars

\* A signup has been answered 200 for a user whose broker topic was not
\* created: the account is active (no delete_me removed the broker topic),
\* and its default project and topic rows are there.
C16_Witness ==
    \E w \in Workers, p \in ProjectIds :
       /\ aresp[w].op = "signup" /\ aresp[w].status = 200
       /\ LET new == aresp[w].user
          IN /\ users[new] # NoRow /\ users[new].is_active
             /\ projects[p] # NoRow /\ projects[p].user_id = new
             /\ topics[p] # NoRow /\ topics[p].kafka_topic_name = user_events(new)
             /\ user_events(new) \notin kafkaTopics

\* The active users whose email is e after normalization and whose password,
\* as last set by a committed signup or update, is p.
LoginMatches(e, p) ==
    {u \in UserIds : /\ users[u] # NoRow
                     /\ users[u].is_active
                     /\ users[u].email = Normalize(e)
                     /\ passwordSet[u] = p}

Offending(w) ==
    {i \in 0..(Len(pmsgs[w]) - 1) : json_dumps_len(pmsgs[w][i + 1]) > 65536}

\* Message m has left the gateway: a future exists for it, the producer
\* holds it or the broker has it.
Produced(m) ==
    \/ futures[m] # "unsent"
    \/ m \in inflight
    \/ \E k \in 1..Len(brokerLog) : brokerLog[k] = m

\* C18: a publish request with a message longer than 65536 bytes is answered
\* 413 with the lowest index of such a message, in a step that changes no
\* counter and produces nothing; no message of it is ever produced and no
\* counter ever changes on its account; a request whose messages are all of
\* 65536 bytes or less passes the validation.
C18_OversizeRejectedWhole ==
    [][/\ \A w \in Workers :
             (ppc[w] = "validate" /\ ppc'[w] # "validate") =>
                IF Offending(w) # {}
                THEN /\ ppc'[w] = "idle"
                     /\ presp'[w].status = 413
                     /\ presp'[w].index \in Offending(w)
                     /\ \A i \in Offending(w) : presp'[w].index <= i
                     /\ UNCHANGED <<globalRows, usageRows, futures, inflight, brokerLog>>
                ELSE /\ ppc'[w] = "check_quota"
                     /\ presp'[w].status # 413
       /\ \A w \in Workers :
             Offending(w) # {} =>
                /\ ppc[w] \in {"idle", "validate"}
                /\ \A i \in 0..(MaxMessages - 1) : ~Produced(<<preq[w].id, i>>)
       /\ (globalRows' # globalRows \/ usageRows' # usageRows) =>
             \E w \in Workers : /\ ppc[w] = "increment" /\ ppc'[w] = "idle"
                                 /\ Offending(w) = {}]_vars

\* One request of three messages, the first of 65536 bytes and the other two
\* longer, has been answered 413 for index 1; another with a message of
\* exactly 65536 bytes has been answered 200, that message on the broker.
C18_Witness ==
    \E w, v \in Workers :
       /\ ppc[w] = "idle" /\ presp[w].status = 413 /\ presp[w].index = 1
       /\ Len(pmsgs[w]) = 3
       /\ json_dumps_len(pmsgs[w][1]) = 65536
       /\ json_dumps_len(pmsgs[w][2]) > 65536
       /\ json_dumps_len(pmsgs[w][3]) > 65536
       /\ ppc[v] = "idle" /\ presp[v].status = 200
       /\ \E i \in 0..(Len(pmsgs[v]) - 1) :
             /\ json_dumps_len(pmsgs[v][i + 1]) = 65536
             /\ \E k \in 1..Len(brokerLog) : brokerLog[k] = <<preq[v].id, i>>

\* C19: a message is handed to the producer only by the request it belongs
\* to, once, at the index the request's loop is at, and only when every
\* message of the request with a lower index has been sent and acknowledged
\* (so none of them failed); the broker holds the messages of a request in
\* index order.
C19_SentInOrderAfterAck ==
    [][/\ \A m \in MessageIds :
             (\/ m \in inflight' \ inflight
              \/ (futures[m] = "unsent" /\ futures'[m] # "unsent")) =>
                /\ \E w \in Workers : /\ ppc[w] = "send"
                                       /\ m = <<preq[w].id, pidx[w]>>
                                       /\ m[2] < Len(pmsgs[w])
                /\ futures[m] = "unsent"
                /\ \A j \in 0..(m[2] - 1) : futures[<<m[1], j>>] = "acked"
       /\ \A a, b \in 1..Len(brokerLog') :
             (a < b /\ brokerLog'[a][1] = brokerLog'[b][1])
                => brokerLog'[a][2] < brokerLog'[b][2]]_vars

\* A request of three messages has been answered 500: its first message is
\* acknowledged and on the broker, the send of its second failed, and its
\* third was never sent.
C19_Witness ==
    \E w \in Workers :
       /\ ppc[w] = "idle" /\ presp[w].status = 500
       /\ Len(pmsgs[w]) = 3
       /\ futures[<<preq[w].id, 0>>] = "acked"
       /\ \E k \in 1..Len(brokerLog) : brokerLog[k] = <<preq[w].id, 0>>
       /\ futures[<<preq[w].id, 1>>] = "failed"
       /\ futures[<<preq[w].id, 2>>] = "unsent"

(***************************************************************************)
(* Claims about the stream writer (checked under RegistrySpec)             *)
(***************************************************************************)
\* The request of worker w was answered with the event stream, the
\* StreamingResponse over generate() of topics.py:522-530: the only
\* response in which the writer and its heartbeats exist.
WriterRuns(w) == streamResp[w].status = 200 /\ streamResp[w].error = "none"

Admitted(w) == streamResp[w].user # 0 /\ streamResp[w].status \notin {404, 429}

\* The SSE events of one kind a request wrote, in the order written.
EventsOf(w, kind) ==
    SelectSeq(streamObs[w].events, LAMBDA e : e.kind = kind)

\* The log_stream entries of one status a request wrote.
EntriesOf(w, st) ==
    SelectSeq(streamObs[w].log, LAMBDA l : l = st)

NoTopicNamed(p, n) ==
    \A t \in ProjectIds :
       (topics[t] # NoRow /\ topics[t].project_id = p)
          => (topics[t].name # n /\ topics[t].kafka_topic_name # n)

\* C28: a publish or a stream request whose topic name is neither the name
\* nor the broker name of a topic of the project resolved for it is answered
\* 404 and changes no counter, registers no connection and reaches the
\* broker with nothing.
C28_UnknownTopicIs404 ==
    [][\A w \in Workers :
         (/\ apc[w] = "body" /\ apc'[w] = "idle"
          /\ aresp'[w].op \in {"publish", "stream"}
          /\ ResolveProject(aauth[w].user, aauth[w].project) # 0
          /\ NoTopicNamed(ResolveProject(aauth[w].user, aauth[w].project),
                          aresp'[w].target.id))
            => /\ aresp'[w].status = 404
               /\ UNCHANGED <<globalRows, usageRows, connections, kafkaTopics,
                              futures, inflight, brokerLog>>]_vars

\* C29: DELETE /auth/me answers 200 and leaves the tenant with
\* is_active = FALSE and every projects, topics, api_keys and counter row as it
\* was, whichever broker deletions fail; delete_topic is called for every
\* topic of the tenant's projects, also after one of the calls failed, and
\* exactly the topics whose call succeeded leave the broker.
C29_DeleteMeBestEffort ==
    [][\A w \in Workers :
         (apc[w] = "body" /\ apc'[w] = "idle" /\ aresp'[w].op = "delete_me")
            => /\ aresp'[w].status = 200
               /\ users'[aauth[w].user].is_active = FALSE
               /\ UNCHANGED <<projects, topics, apiKeys, usageRows, globalRows>>
               /\ deleteLog'.user = aauth[w].user
               /\ deleteLog'.deleted \cup deleteLog'.failed = UserTopicNames(aauth[w].user)
               /\ deleteLog'.deleted \cap deleteLog'.failed = {}
               /\ kafkaTopics' = kafkaTopics \ deleteLog'.deleted]_vars

\* A tenant with two topics was deleted: the deletion of one broker topic
\* failed and that topic is still on the broker, the other was deleted, and
\* the tenant's rows are all there.
C29_Witness ==
    /\ deleteLog.user # 0
    /\ users[deleteLog.user].is_active = FALSE
    /\ deleteLog.failed # {}
    /\ deleteLog.deleted # {}
    /\ deleteLog.failed \subseteq kafkaTopics
    /\ deleteLog.deleted \cap kafkaTopics = {}
    /\ UserTopicNames(deleteLog.user) = deleteLog.failed \cup deleteLog.deleted
    /\ \E w \in Workers : aresp[w].op = "delete_me" /\ aresp[w].status = 200

\* Every topics, api_keys and usage_counters row belongs to a project that
\* exists.
RowsReferToProjects ==
    /\ \A t \in ProjectIds : topics[t] # NoRow => projects[topics[t].project_id] # NoRow
    /\ \A k \in Secrets : apiKeys[k] # NoRow => projects[apiKeys[k].project_id] # NoRow
    /\ \A k \in DOMAIN usageRows : usageRows[k] # NoRow => projects[k[1]] # NoRow

\* The rows of the other projects, of this tenant and of the others, are as
\* they were.
OtherRowsKept(p) ==
    /\ \A q \in ProjectIds \ {p} : projects'[q] = projects[q]
    /\ \A t \in ProjectIds :
          (topics[t] # NoRow /\ topics[t].project_id # p) => topics'[t] = topics[t]
    /\ \A k \in Secrets :
          (apiKeys[k] # NoRow /\ apiKeys[k].project_id # p) => apiKeys'[k] = apiKeys[k]
    /\ \A k \in DOMAIN usageRows : k[1] # p => usageRows'[k] = usageRows[k]
    /\ UNCHANGED <<users, globalRows>>

\* C30: DELETE /projects/{id} of a project of the caller answers 200 and
\* removes the project with its topics, api_keys and usage_counters rows,
\* whether or not the broker topic could be deleted; the rows of every other
\* project are unchanged, and no row ever refers to a deleted project.
C30_DeleteProjectCascades ==
    [][/\ RowsReferToProjects'
       /\ \A w \in Workers :
            (/\ apc[w] = "body" /\ apc'[w] = "idle"
             /\ aresp'[w].op = "delete_project"
             /\ OwnProject(aauth[w].user, aresp'[w].target.id))
               => LET p == aresp'[w].target.id
                  IN /\ aresp'[w].status = 200
                     /\ projects'[p] = NoRow
                     /\ \A t \in ProjectIds :
                           topics'[t] # NoRow => topics'[t].project_id # p
                     /\ \A k \in Secrets :
                           apiKeys'[k] # NoRow => apiKeys'[k].project_id # p
                     /\ \A k \in DOMAIN usageRows : k[1] = p => usageRows'[k] = NoRow
                     /\ OtherRowsKept(p)
                     /\ kafkaTopics' \subseteq kafkaTopics]_vars

\* Tenant 1 deleted its default project in its first request: the broker
\* topic could not be deleted and is still there; the project, its topic row,
\* its API key and its counter are gone, and tenant 2 has all of its rows.
C30_Witness ==
    /\ nauth = 1
    /\ \E w \in Workers : /\ aresp[w].op = "delete_project"
                          /\ aresp[w].status = 200
                          /\ aresp[w].target = ProjectRow(1)
    /\ projects[1] = NoRow /\ topics[1] = NoRow /\ apiKeys[0] = NoRow
    /\ usageRows[<<1, 1>>] = NoRow
    /\ user_events(1) \in kafkaTopics
    /\ projects[2] = DefaultProject(2) /\ topics[2] = DefaultTopic(2, 2)
    /\ apiKeys[1] # NoRow /\ usageRows[<<2, 1>>] # NoRow

(***************************************************************************)
(* Claims about the registry's removal (checked under RegistrySpec).       *)
(***************************************************************************)
\* What one call unregister_connection(u, id) does to a dictionary: the user
\* is left without a descriptor of that id, every other descriptor stays, no
\* key is left with the empty set, a call for an id the user does not hold
\* or for a user without a key changes nothing, and neither does a second
\* call with the same arguments.
RemovesOnce(conns, u, id) ==
    LET once == unregister_connection(conns, u, id)
    IN /\ id \notin HeldIds(once, u)
       /\ \A x \in Tenants :
             Held(once, x) = {c \in Held(conns, x) : x # u \/ c.connection_id # id}
       /\ \A x \in DOMAIN once : once[x] # {}
       /\ id \notin HeldIds(conns, u) => once = conns
       /\ unregister_connection(once, u, id) = once

\* C31: unregister_connection is idempotent and leaves the dictionary alone
\* when the id or the tenant is not registered; removing a tenant's last
\* descriptor removes the tenant's key, so that no key of the dictionary ever
\* holds the empty set.  Checked on every dictionary the registry reaches and
\* on every step that takes a descriptor out of it.
C31_UnregisterIdempotentAndPrunes ==
    [][/\ \A u \in DOMAIN connections' : connections'[u] # {}
       /\ (connections' # connections \/ connections = <<>>) =>
            \A u \in Tenants, id \in 1..MaxCalls : RemovesOnce(connections', u, id)
       /\ (rpc' = rpc /\ connections' # connections) =>
            \E w \in Workers :
               /\ rret'[w].op = "unregister"
               /\ rcall'[w].connection_id \in HeldIds(connections, rcall'[w].user)
               /\ connections' = unregister_connection(connections, rcall'[w].user,
                                                       rcall'[w].connection_id)
               /\ unregister_connection(connections', rcall'[w].user,
                                        rcall'[w].connection_id) = connections']_vars

\* One worker registered descriptor 1 of a user; the other has made the two
\* other calls, the last of them unregister_connection for that user and id,
\* and the dictionary is empty: the user's key is gone with its descriptor.
C31_Witness ==
    /\ ncalls = 3
    /\ connections = <<>>
    /\ \A w \in Workers : streamResp[w] = NoStreamResp
    /\ \E w, v \in Workers :
          /\ rret[v] = [op |-> "register", success |-> TRUE, connection_id |-> 1]
          /\ rret[w].op = "unregister"
          /\ rcall[w].user = rcall[v].user
          /\ rcall[w].connection_id = 1

(***************************************************************************)
(* Claims about the counters of the quota engine (checked under Spec).     *)
(***************************************************************************)
\* A counter row as it is after a step, against the row before: it is still
\* there and none of its fields is smaller.
GlobalGrows(before, after) ==
    /\ after # NoRow
    /\ after.messages_in >= before.messages_in
    /\ after.bytes_in >= before.bytes_in

UsageGrows(before, after) ==
    /\ after # NoRow
    /\ after.messages_in >= before.messages_in
    /\ after.messages_out >= before.messages_out
    /\ after.bytes_in >= before.bytes_in
    /\ after.bytes_out >= before.bytes_out

\* C32: every field of a (project, day) row and of the global row of a day
\* is non-negative, and no step of a request, whether the request ends
\* accepted, rejected or failed, makes one of them smaller.
C32_CountersMonotone ==
    [][/\ \A d \in Days :
            /\ globalRows'[d] # NoRow =>
                  globalRows'[d].messages_in >= 0 /\ globalRows'[d].bytes_in >= 0
            /\ globalRows[d] # NoRow => GlobalGrows(globalRows[d], globalRows'[d])
       /\ \A k \in Projects \X Days :
            /\ usageRows'[k] # NoRow =>
                  /\ usageRows'[k].messages_in >= 0 /\ usageRows'[k].messages_out >= 0
                  /\ usageRows'[k].bytes_in >= 0 /\ usageRows'[k].bytes_out >= 0
            /\ usageRows[k] # NoRow => UsageGrows(usageRows[k], usageRows'[k])]_vars

\* Three requests were served: one was counted, one was rejected with 429 and
\* one failed with 500, and the counted one's row holds its messages.
C32_Witness ==
    /\ nreq = 3
    /\ \E w, v \in Workers : resp[w].status = 429 /\ resp[v].status = 500
    /\ \E k \in Projects \X Days : usageRows[k] # NoRow /\ usageRows[k].messages_in > 0
    /\ globalRows[1].messages_in > SeededGlobal.messages_in

\* The request has passed check_quota and not yet ended.
PastCheck(w) == pc[w] \in {"produce", "iu_gsel", "iu_gins", "iu_usel", "iu_uins", "iu_commit"}

\* C33: requests that make the first accounting of a day together all go on:
\* each one that has passed check_quota holds the lock of the rows it
\* checked (inbound: the global row and the project's row; outbound: the
\* project's row), and none ends on the INSERT of a row that another request
\* inserted first.  (One row per key is what globalRows and usageRows are.)
C33_RowCreationIdempotent ==
    \A w \in Workers :
       /\ resp[w].error # "IntegrityError"
       /\ PastCheck(w) =>
             /\ uLock[UKey(w)] = w
             /\ req[w].dir = "in" => gLock[loc[w].qday] = w

\* The worker's request is counted in this step: increment_usage commits.
Commits(w) == pc[w] = "iu_commit" /\ pc'[w] = "done"

\* The counters after the step are those before it with the request added to
\* the inbound fields of the global row and of the project's row of day d.
CountedIn(r, d) ==
    /\ \A e \in Days :
          GlobalValue(e)' =
             IF e = d
             THEN [messages_in |-> GlobalValue(e).messages_in + r.n,
                   bytes_in |-> GlobalValue(e).bytes_in + r.b]
             ELSE GlobalValue(e)
    /\ \A k \in Projects \X Days :
          UsageValue(k)' =
             IF k = <<r.project, d>>
             THEN [UsageValue(k) EXCEPT !.messages_in = @ + r.n, !.bytes_in = @ + r.b]
             ELSE UsageValue(k)

\* The same for the outbound fields of the project's row; no global row
\* changes.
CountedOut(r, d) ==
    /\ \A e \in Days : GlobalValue(e)' = GlobalValue(e)
    /\ \A k \in Projects \X Days :
          UsageValue(k)' =
             IF k = <<r.project, d>>
             THEN [UsageValue(k) EXCEPT !.messages_out = @ + r.n, !.bytes_out = @ + r.b]
             ELSE UsageValue(k)

\* C34: an outbound call of the quota engine adds its message count and byte
\* count to messages_out and bytes_out of the project's row and changes
\* nothing else; an inbound call adds them to messages_in and bytes_in of the
\* project's row and of the global row and changes nothing else; and no
\* other step of a call changes a counter (an absent row counts as zeros).
C34_DirectionFrame ==
    [][IF \E w \in Workers : Commits(w)
       THEN \A w \in Workers :
               Commits(w) => IF req[w].dir = "in"
                             THEN CountedIn(req[w], loc[w].iday)
                             ELSE CountedOut(req[w], loc[w].iday)
       ELSE /\ \A e \in Days : GlobalValue(e)' = GlobalValue(e)
            /\ \A k \in Projects \X Days : UsageValue(k)' = UsageValue(k)]_vars

\* A project's row holds one inbound batch of 4000 messages and one streamed
\* record, each in its own fields, and the global row holds the batch only.
C34_Witness ==
    /\ \E k \in Projects \X Days :
          /\ usageRows[k] # NoRow
          /\ usageRows[k].messages_in = 4000 /\ usageRows[k].bytes_in = 44000000
          /\ usageRows[k].messages_out = 1 /\ usageRows[k].bytes_out = 64
    /\ globalRows[1] = [messages_in |-> SeededGlobal.messages_in + 4000,
                        bytes_in |-> SeededGlobal.bytes_in + 44000000]

(***************************************************************************)
(* Claims about check_and_increment_usage (checked under RetrySpec).       *)
(***************************************************************************)
\* The worker's transaction holds no lock and has written no row.
NothingOpen(w) ==
    /\ \A d \in Days : gLock[d] # w
    /\ \A k \in Projects \X Days : uLock[k] # w
    /\ ctx[w].g = NoRow /\ ctx[w].u = NoRow

Verdicts == {"global_messages", "global_bytes", "user_messages", "user_bytes"}

\* C35: a call makes at most max_retries + 1 = 4 attempts; every attempt but
\* the last ended on a lock conflict and was followed by one sleep, the
\* sleeps being 10, 20 and 40 ms in that order; nothing of a failed attempt
\* is open while the call sleeps; the call raises 503 exactly when the fourth
\* attempt ends on a lock conflict, and a quota breach (429) or another
\* error ends the call on the attempt where it occurs.
C35_RetryLifecycle ==
    \A w \in Workers :
       LET r == cresp[w]
           last == r.errors[Len(r.errors)]
       IN /\ r.attempts <= max_retries + 1
          /\ r.sleeps = SubSeq(<<10, 20, 40>>, 1, Len(r.sleeps))
          /\ \A i \in 1..Len(r.sleeps) : r.errors[i] = "LockNotAvailable"
          /\ cpc[w] = "ci_sleep" =>
                Len(r.sleeps) = r.attempts /\ Len(r.errors) = r.attempts /\ NothingOpen(w)
          /\ cpc[w] \notin {"idle", "ci_sleep", "done"} =>
                Len(r.sleeps) = r.attempts - 1 /\ Len(r.errors) = r.attempts - 1
          /\ cpc[w] = "done" =>
                /\ NothingOpen(w)
                /\ Len(r.sleeps) = r.attempts - 1
                /\ r.status = 200 <=> Len(r.errors) = r.attempts - 1
                /\ r.status # 200 =>
                      /\ Len(r.errors) = r.attempts
                      /\ r.status = 503 <=>
                            (last = "LockNotAvailable" /\ r.attempts = max_retries + 1)
                      /\ r.status = 429 <=> last \in Verdicts
                      /\ r.status = 500 <=> last = "IntegrityError"

\* One call gave up with 503 after four attempts and the sleeps of 10, 20 and
\* 40 ms, while the call that held the lock ended with 429.
C35_Witness ==
    \E w, v \in Workers :
       /\ cresp[w].status = 503
       /\ cresp[w].attempts = 4
       /\ cresp[w].sleeps = <<10, 20, 40>>
       /\ cresp[v].status = 429
       /\ cresp[v].attempts = 1

\* The worker's call ends in this step with the given status.
CallEnds(w, st) == cpc[w] # "done" /\ cpc'[w] = "done" /\ cresp'[w].status = st

\* C37: the step in which check_and_increment_usage raises 429 leaves the
\* committed global and per-project rows as they are and nothing of the
\* call's transaction open, also when the breach is the per-project one and
\* the transaction had already incremented the global row; and the committed
\* rows change only in the step in which a call commits and returns, so a
\* call that raises 429 has committed nothing.
C37_BreachLeavesRows ==
    [][/\ \A w \in Workers :
            CallEnds(w, 429) =>
               /\ globalRows' = globalRows
               /\ usageRows' = usageRows
               /\ NothingOpen(w)'
       /\ (globalRows' # globalRows \/ usageRows' # usageRows) =>
            \E w \in Workers : cpc[w] = "ci_commit" /\ CallEnds(w, 200)]_vars

\* An inbound call was refused on the per-project limit, that is after its
\* transaction had incremented the global row: the global row of its day
\* holds what the project's row holds, the one batch committed before.
C37_Witness ==
    \E w \in Workers :
       /\ cpc[w] = "done"
       /\ cresp[w].status = 429
       /\ cresp[w].errors[Len(cresp[w].errors)] = "user_messages"
       /\ creq[w].dir = "in"
       /\ globalRows[creq[w].today] # NoRow
       /\ usageRows[CKey(w)] # NoRow
       /\ globalRows[creq[w].today].messages_in = usageRows[CKey(w)].messages_in

(***************************************************************************)
(* Claims about the fallback of the key resolver (checked under AuthSpec)  *)
(***************************************************************************)
\* The row a secret can be slow-verified against: it holds no digest, its
\* hash verifies the secret and its tenant is active.
LegacyMatch(s) ==
    /\ apiKeys[s] # NoRow
    /\ apiKeys[s].lookup_hash = NoHash
    /\ verify_password(s, apiKeys[s].secret_hash)
    /\ IsActive(apiKeys[s].user_id)

\* C36: when the lookup by digest misses, the resolver slow-verifies only the
\* key rows without a digest of active tenants; on a match it stores the
\* digest of the secret on that row, and on no other, and authenticates as
\* the row's (tenant, project); a later request with the same secret is
\* resolved by the lookup by digest; a secret that matches no such row yields
\* no identity (401) and changes no row.
C36_FallbackBackfills ==
    [][\A w \in Workers :
        \* the fallback step of w
        /\ (apc[w] = "key_fallback" /\ apc'[w] # apc[w]) =>
              IF LegacyMatch(KeySecret(w))
              THEN /\ apiKeys' = [apiKeys EXCEPT ![KeySecret(w)].lookup_hash =
                                                    generate_lookup_hash(KeySecret(w))]
                   /\ apc'[w] = "fallback_recheck"
                   /\ aauth'[w].key = KeySecret(w)
              ELSE /\ apiKeys' = apiKeys
                   /\ apc'[w] = "idle"
                   /\ aresp'[w].status = 401
                   /\ aresp'[w].user = 0
        \* the match authenticates as the row's tenant and project
        /\ (apc[w] = "fallback_recheck" /\ apc'[w] # apc[w]) =>
              /\ apiKeys' = apiKeys
              /\ KeyLive(aauth[w].key) =>
                    /\ apc'[w] = "body"
                    /\ aauth'[w].user = apiKeys[aauth[w].key].user_id
                    /\ aauth'[w].project = apiKeys[aauth[w].key].project_id
              /\ apc'[w] = "body" => KeyLive(aauth[w].key)
        \* once the digest is stored the lookup by digest resolves the secret
        /\ (apc[w] = "key_lookup" /\ apc'[w] # apc[w]) =>
              /\ apiKeys' = apiKeys
              /\ (KeyLive(KeySecret(w)) /\ apiKeys[KeySecret(w)].lookup_hash # NoHash) =>
                    /\ apiKeys[KeySecret(w)].lookup_hash = generate_lookup_hash(KeySecret(w))
                    /\ apc'[w] = "key_recheck"
                    /\ aauth'[w].key = KeySecret(w)
      ]_vars

\* The key issued before the digest column existed was backfilled, a request
\* of its tenant was served, and a later request carrying the same secret
\* has been found by the lookup by digest.
C36_Witness ==
    /\ apiKeys[0] # NoRow
    /\ apiKeys[0].lookup_hash = generate_lookup_hash(0)
    /\ \E w, v \in Workers :
          /\ w # v
          /\ aresp[v].op = "get_me" /\ aresp[v].status = 200 /\ aresp[v].user = 1
          /\ apc[w] = "key_recheck"
          /\ KeySecret(w) = 0
          /\ aauth[w].key = 0

(***************************************************************************)
(* Claims about what publish counts (checked under PublishSpec)            *)
(***************************************************************************)
\* messages_in of a project today beyond what its row held at the start.
CountedSinceStart(p) ==
    (IF usageRows[<<p, today>>] = NoRow THEN 0 ELSE usageRows[<<p, today>>].messages_in)
    - (IF p = 1 THEN FREE_TIER_MESSAGES_LIMIT - 2 ELSE 0)

\* The messages published to the topic of project p whose acknowledgement
\* the producer received.
AckedOf(p) == {m \in MessageIds : ptopic[m[1]] = p /\ futures[m] = "acked"}

InLog(m) == \E i \in 1..Len(brokerLog) : brokerLog[i] = m

FindsLocked(w) ==
    \/ /\ pc[w] \in {"cq_gsel", "cq_gresel"}
       /\ globalRows[loc[w].qday] # NoRow
       /\ gLock[loc[w].qday] \notin {Free, w}
    \/ /\ pc[w] = "cq_usel"
       /\ usageRows[UKey(w)] # NoRow
       /\ uLock[UKey(w)] \notin {Free, w}

\* C39: a publish whose check_quota finds the global row or the project's
\* row locked by another request in flight ends with a status other than
\* 200, without having produced a message and without a counter changed;
\* and a publish holds the locks of the rows it checked from the check,
\* across the produce, until its increment commits or it fails.
C39_LockedCheckFailsClean ==
    /\ [](\A w \in Workers :
             (req[w].dir = "in" /\ PastCheck(w)) =>
                 /\ gLock[loc[w].qday] = w
                 /\ uLock[UKey(w)] = w)
    /\ [][\A w \in Workers :
            (req[w].dir = "in" /\ pc'[w] # pc[w] /\ FindsLocked(w)) =>
                /\ pc'[w] = "done"
                /\ resp'[w].status \notin {0, 200}
                /\ resp'[w].acked = 0
                /\ ~resp'[w].debited
                /\ globalRows' = globalRows
                /\ usageRows' = usageRows
                /\ \A d \in Days : gLock[d] # w => gLock'[d] = gLock[d]
                /\ \A k \in Projects \X Days : uLock[k] # w => uLock'[k] = uLock[k]
         ]_vars

\* One publish is producing, holding the lock of the global row it checked,
\* and another publish of the same day has ended at that row: 500, nothing
\* produced, the counters as they were at the start.
C39_Witness ==
    \E w, v \in Workers :
       /\ w # v
       /\ req[w].dir = "in" /\ req[v].dir = "in"
       /\ pc[v] = "produce"
       /\ gLock[loc[v].qday] = v
       /\ pc[w] = "done"
       /\ resp[w] = [status |-> 500, error |-> "LockNotAvailable", acked |-> 0, debited |-> FALSE]
       /\ loc[w].qday = loc[v].qday
       /\ globalRows[1] = SeededGlobal

(***************************************************************************)
(* Claims about the global and the per-project counters (checked under     *)
(* LedgerSpec)                                                             *)
(***************************************************************************)
GlobalIn(rows, d) == IF rows[d] = NoRow THEN ZeroGlobal ELSE rows[d]

UsageIn(rows, k) ==
    IF rows[k] = NoRow THEN ZeroGlobal
    ELSE [messages_in |-> rows[k].messages_in, bytes_in |-> rows[k].bytes_in]

\* The sum of the inbound counters of the rows of day d of the projects 1..n
\* that are in S.
RECURSIVE SumIn(_, _, _, _)
SumIn(rows, S, n, d) ==
    IF n = 0 THEN ZeroGlobal
    ELSE LET rest == SumIn(rows, S, n - 1, d)
             own == IF n \in S THEN UsageIn(rows, <<n, d>>) ELSE ZeroGlobal
         IN [messages_in |-> own.messages_in + rest.messages_in,
             bytes_in |-> own.bytes_in + rest.bytes_in]

\* What the global row of day d holds beyond the rows of the projects.
Surplus(g, u, d) ==
    LET sum == SumIn(u, Projects, NumProjects, d)
    IN [messages_in |-> GlobalIn(g, d).messages_in - sum.messages_in,
        bytes_in |-> GlobalIn(g, d).bytes_in - sum.bytes_in]

\* The surplus of the first state: day 1 holds the traffic of projects that
\* are not among Projects, day 2 has not begun.
SurplusAtStart(d) ==
    LET seeded == [k \in Projects \X Days |->
                     IF k[2] = 1
                     THEN [ZeroUsage EXCEPT !.messages_in = k[1], !.bytes_in = 10 * k[1]]
                     ELSE NoRow]
        sum == SumIn(seeded, Projects, NumProjects, d)
    IN IF d = 1
       THEN [messages_in |-> SeededGlobal.messages_in - sum.messages_in,
             bytes_in |-> SeededGlobal.bytes_in - sum.bytes_in]
       ELSE ZeroGlobal

\* The inbound counts of the rows of day d that a step removed.
Removed(d) ==
    SumIn(usageRows,
          {p \in Projects : usageRows[<<p, d>>] # NoRow /\ usageRows'[<<p, d>>] = NoRow},
          NumProjects, d)

\* C40: the global row and the project's row are incremented in one commit,
\* so on every day the global messages_in and bytes_in are at least the sums
\* over the existing rows of the projects, and equal to them as long as no
\* project with usage on that day was deleted: the surplus of a day grows
\* only by the counts of the rows a deletion removes.
C40_GlobalCoversProjects ==
    /\ [](\A d \in Days :
             LET surplus == Surplus(globalRows, usageRows, d)
             IN /\ surplus.messages_in >= 0
                /\ surplus.bytes_in >= 0
                /\ (\A p \in Projects : projects[p] # NoRow) => surplus = SurplusAtStart(d))
    /\ [][(globalRows' # globalRows \/ usageRows' # usageRows) =>
            \A d \in Days :
               LET before == Surplus(globalRows, usageRows, d)
                   after == Surplus(globalRows', usageRows', d)
                   removed == Removed(d)
               IN /\ after.messages_in = before.messages_in + removed.messages_in
                  /\ after.bytes_in = before.bytes_in + removed.bytes_in
                  /\ removed # ZeroGlobal =>
                        \E p \in Projects : projects[p] # NoRow /\ projects'[p] = NoRow
         ]_vars

\* On day 2 both projects were published to; project 1 was then deleted, and
\* the global row of day 2 holds more than the one project row left, which
\* has its own messages.
C40_Witness ==
    /\ today = 2
    /\ projects[1] = NoRow /\ projects[2] # NoRow
    /\ usageRows[<<2, 2>>] # NoRow
    /\ usageRows[<<2, 2>>].messages_in > 0
    /\ Surplus(globalRows, usageRows, 2).messages_in > 0
    /\ globalRows[2].messages_in
          = usageRows[<<2, 2>>].messages_in + Surplus(globalRows, usageRows, 2).messages_in
====
